---- MODULE Spec2Model ----
(***************************************************************************)
(* Mail-E2E-Exporter: the route-test engine.                               *)
(*                                                                         *)
(* Two entry points exist in the repository and both are modelled:         *)
(*   impl = "runner" : app/runner.py + app/smtp_client.py +                *)
(*                     app/imap_client.py (asyncio tasks, one per route)   *)
(*   impl = "main"   : app/main.py run_tests_loop (one thread, the routes  *)
(*                     one after the other)                                *)
(* The metrics registry (labelled gauges and counters) is the shared       *)
(* state both write.  The gauges that carry wall-clock values              *)
(* (last_send_timestamp, last_receive_timestamp, roundtrip_seconds) are    *)
(* not part of the state; send_rate_limited_total is kept per series, its  *)
(* code label left out.                                                    *)
(***************************************************************************)
EXTENDS Integers, Sequences, FiniteSets, TLC

VARIABLES
    impl,       \* which entry point runs: "runner" or "main"
    config,     \* the live configuration: exporter flags, accounts, tests
    env,        \* the process environment (os.environ), for ${VAR} expansion
    phase,      \* the loop's position: "idle", "running", "sleep"
    cycle,      \* number of cycles started
    cur,        \* the task that holds the thread (0: none is running)
    task,       \* per route task: program counter and locals
    metrics,    \* the registry: gauges and counters by label tuple
    snap,       \* the config object the cycle took its tests and settings from
    store,      \* the config file, its mtime, the live reference, a reload
    stop_event, \* the stop signal (threading.Event)
    sleep_left, \* seconds left of the wait between two cycles
    now,        \* the wall clock (time.time())
    loader,     \* ExporterConfig.load on typed values: table, file, result
    mbox,       \* a destination mailbox and the polls that search it
    retry,      \* smtp_send's retry loop with the waits it computes
    threads     \* start_background: its callers and the worker threads

vars == <<impl, config, env, phase, cycle, cur, task, metrics,
          snap, store, stop_event, sleep_left, now, loader, mbox, retry,
          threads>>

\* the components the worker loop's steps do not touch: they hold the
\* loader, the mailbox poller, the retry waits and the start of the worker
\* taken on their own
aside == <<loader, mbox, retry, threads>>

\* what no step of a route writes: the operator, the file system and the
\* clock own it
outside == <<impl, env, store, stop_event, now, aside>>

-----------------------------------------------------------------------------
(* Bounds of the model *)

MaxCycles == 2
MaxDelay == 1
MaxTime == 2
MaxFileChanges == 1
MaxLoads == 2           \* loads of the file in the loader taken on its own
MaxPollCycles == 2      \* cycles of a route in the mailbox taken on its own
MaxPollPasses == 2      \* passes of one poll over its folders
MaxDraws == 3           \* tokens drawn in the mailbox taken on its own
MaxFileWrites == 2      \* writes of the file between calls of the reload
MaxReloads == 3         \* calls of reload_config_if_changed taken on its own
MaxTimeoutS == 120      \* largest smtp timeout (s) the retry waits are taken for
MaxStartCalls == 2      \* calls of start_background by one caller

(* Values of the exporter settings in the modelled configuration (seconds) *)
CfgReceiveTimeout == 3
CfgReceivePoll == 2
CfgProbeTimeout == 1
CfgProbePoll == 1
CfgCheckInterval == 1

-----------------------------------------------------------------------------
(* Values *)

None == "<None>"        \* Python None / a missing key
Unset == "<unset>"      \* an environment variable that is not set
Absent == -1            \* a labelled series that was never created
NoMtime == -1           \* _config_mtime_ns = None: no mtime recorded yet

AccountKeys == {"a", "b"}
RouteNames == {"r1", "r2"}
\* a key no account is configured under
UnknownKey == "x"
Labels == AccountKeys \cup {"?", "", UnknownKey}
\* the series main.run_tests_loop publishes when no test is configured
PlaceholderSeries == <<"no-tests-configured", "n/a", "n/a">>
AllSeries == (RouteNames \X Labels \X Labels) \cup {PlaceholderSeries}
Steps == {"send", "receive", "config"}

GaugeNames == {"g_test_info", "g_send_ok", "g_send_uncertain", "g_recv_ok",
               "g_recv_attempted", "g_recv_skipped", "g_last_error",
               "g_last_send", "g_last_recv", "g_roundtrip"}

-----------------------------------------------------------------------------
(* Configuration: config.data and the environment *)

\* config.DEFAULTS: the keys the model reads
DEFAULTS ==
    [exporter |-> [probe_on |-> TRUE], accounts |-> <<>>, tests |-> <<>>]

\* the top-level keys whose values are dicts (tests is a list)
DictKeys == {"exporter", "accounts"}

\* {**a, **b}
dict_merge(a, b) ==
    [k \in DOMAIN a \cup DOMAIN b |-> IF k \in DOMAIN b THEN b[k] ELSE a[k]]

\* the body of ExporterConfig.load's loop for one key of the loaded file: a
\* dict over a dict is merged one level deep, anything else replaces
merge_key(data, loaded, k) ==
    IF k \in DictKeys /\ k \in DOMAIN data
    THEN [data EXCEPT ![k] = dict_merge(@, loaded[k])]
    ELSE [data EXCEPT ![k] = loaded[k]]

\* the keys of a loaded file in the order the loop visits them (the order of
\* the file; the model's files keep this one)
KeyOrder == <<"exporter", "accounts", "tests">>
file_keys(loaded) == SelectSeq(KeyOrder, LAMBDA k : k \in DOMAIN loaded)

RECURSIVE load_keys(_, _, _)
load_keys(data, loaded, ks) ==
    IF ks = <<>> THEN data
    ELSE load_keys(merge_key(data, loaded, Head(ks)), loaded, Tail(ks))

\* ExporterConfig.load: a copy of DEFAULTS with the file's keys merged in
ExporterConfig_load(loaded) == load_keys(DEFAULTS, loaded, file_keys(loaded))

\* Python truthiness of an optional string: None and "" are falsy
Truthy(v) == v # None /\ v # ""

\* os.path.expandvars on a string: ${PW} is replaced when PW is set and left
\* as written when it is not; anything else is returned unchanged
expand_env_value(val) ==
    IF val = "${PW}" /\ env # Unset THEN env ELSE val

\* the route name of a test entry: its name, else "from->to"
route_name(t) == IF Truthy(t.name) THEN t.name ELSE t.from \o "->" \o t.to

\* smtp_client._get_account: the key must be present in accounts
get_account_known(key) == key \in DOMAIN config.accounts

\* smtp_send's destination address: imap.username or smtp.username
to_addr(dst) ==
    LET iu == expand_env_value(config.accounts[dst].imap_username)
        su == expand_env_value(config.accounts[dst].smtp_username)
    IN IF Truthy(iu) THEN iu ELSE su

\* (mutant of smtp_precheck: an empty password passes, only a missing one
\* is caught)
smtp_precheck_mut(src, dst) ==
    IF ~get_account_known(src) \/ ~get_account_known(dst) THEN "ValueError"
    ELSE IF ~Truthy(to_addr(dst)) THEN "ValueError"
    ELSE IF ~Truthy(expand_env_value(config.accounts[src].smtp_username))
        THEN "Exception"
    ELSE IF expand_env_value(config.accounts[src].smtp_password) = None
        THEN "Exception"
    ELSE "ok"

\* smtp_send before its retry loop: "ok" when the message can be built,
\* else the kind of error raised (every one is a plain, non-uncertain error)
smtp_precheck(src, dst) ==
    IF ~get_account_known(src) \/ ~get_account_known(dst) THEN "ValueError"
    ELSE IF ~Truthy(to_addr(dst)) THEN "ValueError"
    ELSE IF ~Truthy(expand_env_value(config.accounts[src].smtp_username))
        THEN "Exception"
    ELSE IF expand_env_value(config.accounts[src].smtp_password) \in {None, ""}
        THEN "Exception"
    ELSE "ok"

\* exporter_cfg.get("uncertain_probe_on_timeout", True) on the cycle's
\* exporter settings
uncertain_probe_on_timeout == snap.exporter.probe_on

-----------------------------------------------------------------------------
(* The registry *)

\* the tests of the cycle: the list taken from the config at cycle start
Tasks == 1..Len(snap.tests)
Test(i) == snap.tests[i]

\* the label tuple (route, from, to) of a route's series
Series(i) == <<route_name(Test(i)), Test(i).from, Test(i).to>>

\* the label tuple imap_client.imap_wait_receive writes: from is "?"
PollerSeries(i) == <<route_name(Test(i)), "?", Test(i).to>>

\* gauge.labels(...).set(v)
GSet(m, g, s, v) == [m EXCEPT ![g][s] = v]

\* counter.labels(...).inc(n): creates the series at 0 when absent
CInc(m, c, k, n) ==
    [m EXCEPT ![c][k] = (IF @ = Absent THEN 0 ELSE @) + n]

\* (mutant of c_errors_inc: the error is counted twice)
c_errors_inc_mut(m, s, step) == CInc(m, "c_errors", <<s, step>>, 2)

\* c_errors.labels(route, from, to, step).inc()
c_errors_inc(m, s, step) == CInc(m, "c_errors", <<s, step>>, 1)

MetricsInit ==
    [g \in GaugeNames |-> [s \in AllSeries |-> Absent]] @@
    [c_errors |-> [k \in AllSeries \X Steps |-> Absent],
     c_rate_limited |-> [s \in AllSeries |-> Absent],
     g_cfg |-> [published |-> 0, smtp_timeout |-> Absent]]

-----------------------------------------------------------------------------
(* A route task: program counter and locals *)

\* pc: "none"      no task (before the first cycle)
\*     "created"   scheduled, not started
\*     "smtp_wait" suspended in aiosmtplib.send
\*     "backoff"   suspended in the sleep before a retry
\*     "send_ok_w" send_success written, send_uncertain not yet
\*     "send_exc"  smtp_send raised, the caller's handler runs next
\*     "recv_call" / "probe_call"  about to call the mailbox poller
\*     "polling"   inside the poller's loop
\*     "done"      returned, "raised" ended by an exception
TaskInit ==
    [pc |-> "none", attempts |-> 0, replies |-> <<>>, backoffs |-> 0, exc |-> "none",
     outcome |-> "none", accepted |-> FALSE, polls |-> 0, kind |-> "none",
     poll_s |-> 0, timeout_s |-> 0, elapsed |-> 0, passes |-> 0,
     found |-> FALSE, start |-> 0, start_ts |-> 0, acc_seen |-> <<>>]

-----------------------------------------------------------------------------
(* smtp_client.smtp_send, as called by runner._run_one_test *)

\* how one SMTP attempt can end
\*   "ok"      aiosmtplib.send returned
\*   "r4xx"    SMTPResponseException with 400 <= code < 500
\*   "r5xx"    SMTPResponseException with any other code
\*   "timeout" SMTPTimeoutError, SMTPServerDisconnected or TimeoutError
\*   "other"   any other exception
Replies == {"ok", "r4xx", "r5xx", "timeout", "other"}

max_attempts == 3
SmtpTimeout == 60

\* (mutant of retry_4xx: one retry too many)
retry_4xx_mut(n) == n <= max_attempts

\* (mutant of retry_timeout: a timeout on the last attempt is retried too)
retry_timeout_mut(n) == TRUE

\* the retry tests of the two retrying handlers: "attempts < max_attempts"
retry_4xx(n) == n < max_attempts
retry_timeout(n) == n < max_attempts

\* (mutant of timeout_exhausted_exc: the timeout error is re-raised as it
\* came)
timeout_exhausted_exc_mut == "SMTPTimeoutError"

\* what smtp_send raises once timeouts have used up the attempts
timeout_exhausted_exc == "SMTPUncertainError"

\* (mutant of loop_continues: the loop never looks at the stop event)
loop_continues_mut == TRUE

\* the loop test of the worker thread: "while not _stop_event.is_set()"
loop_continues == ~stop_event

\* (mutant of publish_config_gauges: the gauges are left as they are)
publish_config_gauges_mut(m, n) == m

\* the exporter-config gauges set at the head of a cycle (n: the cycle whose
\* settings they show)
publish_config_gauges(m, n) == [m EXCEPT !.g_cfg.published = n]

\* the loop test passes and runner._run_all_tests_once runs up to the gather:
\* config gauges, then one task per test of the config object the runner
\* module imported
run_all_tests_once ==
    /\ impl = "runner"
    /\ phase = "idle"
    /\ loop_continues
    /\ cycle < MaxCycles
    /\ cycle' = cycle + 1
    /\ phase' = "running"
    /\ snap' = config
    /\ metrics' = publish_config_gauges(metrics, cycle + 1)
    /\ task' = [i \in 1..Len(config.tests) |->
                  [TaskInit EXCEPT !.pc = "created"]]
    /\ UNCHANGED <<outside, config, sleep_left, cur>>

\* (mutant of run_one_test_start: the send is started but not awaited, the
\* task goes straight on to the receive)
run_one_test_start_mut(i) ==
    /\ impl = "runner"
    /\ phase = "running"
    /\ cur = 0
    /\ task[i].pc = "created"
    /\ metrics' = GSet(metrics, "g_test_info", Series(i), 1)
    /\ task' = [task EXCEPT ![i].pc = "recv_call", ![i].attempts = 1]
    /\ cur' = i
    /\ UNCHANGED <<outside, config, snap, sleep_left, phase, cycle>>

\* _run_one_test from its start to the first suspension in smtp_send, or to
\* the error smtp_send raises before its loop
run_one_test_start(i) ==
    /\ impl = "runner"
    /\ phase = "running"
    /\ cur = 0
    /\ task[i].pc = "created"
    /\ LET pre == smtp_precheck(Test(i).from, Test(i).to)
           m1 == GSet(GSet(metrics, "g_test_info", Series(i), 1),
                      "g_last_send", Series(i), now)
       IN /\ metrics' = [m1 EXCEPT !.g_cfg.smtp_timeout = SmtpTimeout]
          /\ IF pre = "ok"
             THEN /\ task' = [task EXCEPT ![i].pc = "smtp_wait",
                                          ![i].attempts = 1,
                                          ![i].start = now,
                                          ![i].acc_seen = config.accounts]
                  /\ cur' = 0
             ELSE /\ task' = [task EXCEPT ![i].pc = "send_exc", ![i].exc = pre,
                                          ![i].start = now,
                                          ![i].acc_seen = config.accounts]
                  /\ cur' = i
    /\ UNCHANGED <<outside, config, snap, sleep_left, phase, cycle>>

\* (mutant of is_temp_failure: every SMTP reply error counts as temporary)
is_temp_failure_mut(o) == o \in {"r4xx", "r5xx"}

\* the test "400 <= code < 500" on an SMTPResponseException
is_temp_failure(o) == o = "r4xx"

\* one attempt ends with reply o; acc tells whether the server took the
\* message (always on "ok", possibly on a timeout or disconnect)
smtp_attempt_done(i, o, acc) ==
    /\ impl = "runner"
    /\ cur = 0
    /\ task[i].pc = "smtp_wait"
    /\ acc => o \in {"ok", "timeout"}
    /\ o = "ok" => acc
    /\ LET s == Series(i)
           n == task[i].attempts
           t == [task[i] EXCEPT !.replies = Append(@, o),
                                !.accepted = @ \/ acc]
           slept == [t EXCEPT !.pc = "backoff", !.backoffs = @ + 1]
           raise(e) == [t EXCEPT !.pc = "send_exc", !.exc = e]
       IN CASE o = "ok" ->
                 /\ metrics' = GSet(metrics, "g_send_ok", s, 1)
                 /\ task' = [task EXCEPT ![i] = [t EXCEPT !.pc = "send_ok_w"]]
                 /\ cur' = i
            [] o \in {"r4xx", "r5xx"} ->
                 LET m1 == IF is_temp_failure(o)
                           THEN CInc(metrics, "c_rate_limited", s, 1)
                           ELSE metrics
                 IN IF is_temp_failure(o) /\ retry_4xx(n)
                    THEN /\ metrics' = m1
                         /\ task' = [task EXCEPT ![i] = slept]
                         /\ cur' = 0
                    ELSE /\ metrics' = GSet(m1, "g_send_ok", s, 0)
                         /\ task' = [task EXCEPT ![i] =
                                raise("SMTPResponseException")]
                         /\ cur' = i
            [] o = "timeout" ->
                 IF retry_timeout(n)
                 THEN /\ metrics' = metrics
                      /\ task' = [task EXCEPT ![i] = slept]
                      /\ cur' = 0
                 ELSE /\ metrics' = GSet(GSet(metrics, "g_send_ok", s, 0),
                                         "g_send_uncertain", s, 1)
                      /\ task' = [task EXCEPT ![i] =
                             raise(timeout_exhausted_exc)]
                      /\ cur' = i
            [] o = "other" ->
                 /\ metrics' = GSet(GSet(metrics, "g_send_ok", s, 0),
                                    "g_send_uncertain", s, 0)
                 /\ task' = [task EXCEPT ![i] = raise("Exception")]
                 /\ cur' = i
    /\ UNCHANGED <<outside, config, snap, sleep_left, phase, cycle>>

\* the backoff sleep ends and the loop tests its condition: the next attempt,
\* or the fall-through after the loop (send_success = 0, a normal return that
\* the caller takes for a successful send)
smtp_backoff_done(i) ==
    /\ impl = "runner"
    /\ cur = 0
    /\ task[i].pc = "backoff"
    /\ IF task[i].attempts < max_attempts
       THEN /\ task' = [task EXCEPT ![i].pc = "smtp_wait",
                                    ![i].attempts = @ + 1]
            /\ UNCHANGED <<cur, metrics>>
       ELSE /\ metrics' = GSet(metrics, "g_send_ok", Series(i), 0)
            /\ task' = [task EXCEPT ![i].pc = "recv_call",
                                    ![i].outcome = "ok"]
            /\ cur' = i
    /\ UNCHANGED <<outside, config, snap, sleep_left, phase, cycle>>

\* smtp_send's last write on success, then the return into _run_one_test
smtp_send_ok_return(i) ==
    /\ impl = "runner"
    /\ cur = i
    /\ task[i].pc = "send_ok_w"
    /\ metrics' = GSet(metrics, "g_send_uncertain", Series(i), 0)
    /\ task' = [task EXCEPT ![i].pc = "recv_call", ![i].outcome = "ok"]
    /\ UNCHANGED <<outside, config, snap, sleep_left, phase, cycle, cur>>

-----------------------------------------------------------------------------
(* runner._run_one_test after the send *)

\* the outcome the except clauses give a raised error
send_outcome_of(exc) ==
    IF exc = "SMTPUncertainError" THEN "uncertain" ELSE "failed"

\* is the mailbox probed after a send that did not succeed
runner_probe_after(outcome) == uncertain_probe_on_timeout

\* the two except clauses of _run_one_test, then the "if not send_ok" block
\* up to the call of the poller
run_one_test_send_failed(i) ==
    /\ impl = "runner"
    /\ cur = i
    /\ task[i].pc = "send_exc"
    /\ LET s == Series(i)
           oc == send_outcome_of(task[i].exc)
           m1 == GSet(metrics, "g_send_ok", s, 0)
           m2 == GSet(m1, "g_send_uncertain", s,
                      IF oc = "uncertain" THEN 1 ELSE 0)
           m3 == GSet(m2, "g_last_error", s, 1)
           m4 == c_errors_inc(m3, s, "send")
       IN /\ metrics' = GSet(m4, "g_recv_skipped", s, 1)
          /\ IF runner_probe_after(oc)
             THEN /\ task' = [task EXCEPT ![i].pc = "probe_call",
                                          ![i].outcome = oc]
                  /\ cur' = i
             ELSE /\ task' = [task EXCEPT ![i].pc = "done",
                                          ![i].outcome = oc]
                  /\ cur' = 0
    /\ UNCHANGED <<outside, config, snap, sleep_left, phase, cycle>>

-----------------------------------------------------------------------------
(* imap_client.imap_wait_receive, as called by runner._run_one_test *)

\* the exporter settings the poller reads from the dict it is given
exporter_cfg ==
    [receive_timeout_seconds |-> CfgReceiveTimeout,
     receive_poll_seconds |-> CfgReceivePoll]

\* runner: probe_cfg = dict(exporter_cfg), a plain copy
runner_probe_cfg == exporter_cfg

LoginResults == {"ok", "LoginError", "error"}

\* the call of the poller: receive_attempted on the route's series when this
\* is the normal receive, then inside the poller the settings are read,
\* receive_attempted is set on the poller's series, and the session is opened
\* (d: the time that takes); a failed connect, login or select raises
imap_wait_receive_call(i, login, d) ==
    /\ impl = "runner"
    /\ cur = i
    /\ task[i].pc \in {"recv_call", "probe_call"}
    /\ LET probe == task[i].pc = "probe_call"
           cfg == IF probe THEN runner_probe_cfg ELSE exporter_cfg
           m1 == IF probe THEN metrics
                 ELSE GSet(metrics, "g_recv_attempted", Series(i), 1)
           t == [task[i] EXCEPT !.polls = @ + 1,
                                !.kind = IF probe THEN "probe" ELSE "receive",
                                !.poll_s = cfg.receive_poll_seconds,
                                !.timeout_s = cfg.receive_timeout_seconds,
                                !.elapsed = d,
                                !.start_ts = now,
                                !.acc_seen = config.accounts]
       IN /\ metrics' = GSet(m1, "g_recv_attempted", PollerSeries(i), 1)
          /\ IF login = "ok"
             THEN /\ task' = [task EXCEPT ![i] = [t EXCEPT !.pc = "polling"]]
                  /\ cur' = i
             ELSE /\ task' = [task EXCEPT ![i] =
                        [t EXCEPT !.pc = "raised", !.exc = login]]
                  /\ cur' = 0
    /\ UNCHANGED <<outside, config, snap, sleep_left, phase, cycle>>

\* (mutant of poll_timed_out: the poll gives up after any pass without a
\* match)
poll_timed_out_mut(elapsed, timeout_s) == TRUE

\* has the poll run out of time (tested after a pass that found nothing)
poll_timed_out(elapsed, timeout_s) == elapsed > timeout_s

\* (mutant of run_one_test_after_poll: a probe's match is not written to the
\* route's series)
run_one_test_after_poll_mut(m, i, kind, ok) ==
    LET s == Series(i)
    IN IF ok /\ kind = "receive"
       THEN GSet(GSet(GSet(m, "g_recv_ok", s, 1), "g_last_recv", s, now),
                 "g_roundtrip", s, now - m.g_last_send[s])
       ELSE IF kind = "receive"
            THEN CInc(GSet(m, "g_last_error", s, 1),
                      "c_errors", <<s, "receive">>, 1)
            ELSE m

\* (mutant of runner_roundtrip: the operands are swapped)
runner_roundtrip_mut(m, s, end) == m.g_last_send[s] - end

\* the roundtrip _run_one_test reports: the time of the match less the value
\* the last_send_timestamp gauge of the series holds
runner_roundtrip(m, s, end) == end - m.g_last_send[s]

\* what _run_one_test does with the poller's result
run_one_test_after_poll(m, i, kind, ok) ==
    LET s == Series(i)
        m1 == GSet(GSet(m, "g_recv_ok", s, 1), "g_last_recv", s, now)
    IN IF ok
       THEN IF kind = "receive"
            THEN GSet(m1, "g_roundtrip", s, runner_roundtrip(m, s, now))
            ELSE m1
       ELSE IF kind = "receive"
            THEN c_errors_inc(GSet(m, "g_last_error", s, 1), s, "receive")
            ELSE m

\* what the poller writes when it returns
poller_result_writes(m, i, ok) ==
    LET s == PollerSeries(i)
    IN IF ok
       THEN GSet(GSet(GSet(m, "g_recv_ok", s, 1), "g_last_recv", s, now),
                 "g_roundtrip", s, now - task[i].start_ts)
       ELSE GSet(m, "g_recv_ok", s, 0)

\* one pass over the folders (d: the time it takes). found: a message with
\* this route's token is in a folder, possible only once the server took it.
\* A match returns ok; no match returns timeout when the time is up, else the
\* poller sleeps poll_s and passes again. The caller's handling of the
\* result is part of the step
imap_wait_receive_pass(i, found, d) ==
    /\ impl = "runner"
    /\ cur = i
    /\ task[i].pc = "polling"
    /\ found => task[i].accepted
    /\ LET el == task[i].elapsed + d
           t == [task[i] EXCEPT !.passes = @ + 1]
       IN IF found \/ poll_timed_out(el, task[i].timeout_s)
          THEN /\ metrics' = run_one_test_after_poll(
                                poller_result_writes(metrics, i, found),
                                i, task[i].kind, found)
               /\ task' = [task EXCEPT ![i] =
                     [t EXCEPT !.pc = "done", !.found = found, !.elapsed = 0]]
               /\ cur' = 0
          ELSE /\ task' = [task EXCEPT ![i] =
                     [t EXCEPT !.elapsed = el + task[i].poll_s]]
               /\ UNCHANGED <<metrics, cur>>
    /\ UNCHANGED <<outside, config, snap, sleep_left, phase, cycle>>

\* (mutant of gather_done: without return_exceptions the first exception
\* ends the gather)
gather_done_mut ==
    \/ \E i \in Tasks : task[i].pc = "raised"
    \/ \A i \in Tasks : task[i].pc = "done"

\* asyncio.gather(*tasks, return_exceptions=True) is done: every task has
\* returned or raised
\* (mutant of gather_done: gather waits for every task to return normally)
gather_done_returned_mut == \A i \in Tasks : task[i].pc = "done"

gather_done == \A i \in Tasks : task[i].pc \in {"done", "raised"}

\* gather returns once every task has ended (the tasks and their locals are
\* gone); the loop goes to sleep
run_all_tests_once_join ==
    /\ impl = "runner"
    /\ phase = "running"
    /\ gather_done
    /\ phase' = "sleep"
    /\ sleep_left' = CfgCheckInterval
    /\ task' = [i \in Tasks |-> TaskInit]
    /\ UNCHANGED <<outside, config, snap, cycle, cur, metrics>>

\* (mutant of wait_over: a plain sleep of check_interval)
wait_over_mut(left, stopped) == left = 0

\* Event.wait(check_interval) is over: the interval has run out or the
\* event is set
wait_over(left, stopped) == left = 0 \/ stopped

\* a second of the wait between two cycles goes by
sleep_tick ==
    /\ phase = "sleep"
    /\ ~wait_over(sleep_left, stop_event)
    /\ sleep_left' = sleep_left - 1
    /\ UNCHANGED <<outside, config, snap, phase, cycle, cur, task, metrics>>

\* the wait returns and the loop goes back to its test (sleep_left keeps
\* what was left of the interval when the wait returned)
sleep_done ==
    /\ phase = "sleep"
    /\ wait_over(sleep_left, stop_event)
    /\ phase' = "idle"
    /\ UNCHANGED <<outside, config, snap, sleep_left, cycle, cur, task,
                   metrics>>

\* the loop test fails: the worker thread leaves its loop
loop_exit ==
    /\ phase = "idle"
    /\ ~loop_continues
    /\ phase' = "stopped"
    /\ UNCHANGED <<outside, config, snap, sleep_left, cycle, cur, task, metrics>>

\* runner.stop_background / main.on_shutdown: the stop signal is set
stop_background ==
    /\ ~stop_event
    /\ stop_event' = TRUE
    /\ UNCHANGED <<impl, env, store, now, aside, config, snap, sleep_left,
                   phase, cycle, cur, task, metrics>>

-----------------------------------------------------------------------------
(* main.py: _smtp_send, _imap_wait_receive and run_tests_loop.  One thread
   works through the tests in order; cur is the index of the test in work *)

main_max_attempts == 2

\* main._get_account: the key must map to a non-empty account
main_get_account_known(key) == key \in DOMAIN config.accounts

\* _smtp_send before its retry loop
main_smtp_precheck(src, dst) ==
    IF ~main_get_account_known(src) \/ ~main_get_account_known(dst)
        THEN "ValueError"
    ELSE IF ~Truthy(to_addr(dst)) THEN "ValueError"
    ELSE IF ~Truthy(expand_env_value(config.accounts[src].smtp_username))
        THEN "Exception"
    ELSE IF expand_env_value(config.accounts[src].smtp_password) \in {None, ""}
        THEN "Exception"
    ELSE "ok"

\* _imap_wait_receive before it connects
main_imap_precheck(dst) ==
    IF ~main_get_account_known(dst) THEN "ValueError"
    ELSE IF ~Truthy(expand_env_value(config.accounts[dst].imap_username))
        THEN "Exception"
    ELSE IF expand_env_value(config.accounts[dst].imap_password) \in {None, ""}
        THEN "Exception"
    ELSE "ok"

\* the probe's settings: the probe timeout and poll override the receive ones
main_probe_cfg ==
    [receive_timeout_seconds |-> CfgProbeTimeout,
     receive_poll_seconds |-> CfgProbePoll]

\* reload_config_if_changed: does the file have to be loaded again. os.stat
\* gives the mtime, or raises FileNotFoundError when the file is missing
config_changed(force) ==
    \/ force
    \/ IF store.state = "missing" THEN store.seen # NoMtime
       ELSE store.seen = NoMtime \/ store.mtime # store.seen

\* what one call of reload_config_if_changed makes of the file st describes:
\* a missing file loads as the defaults, a file that cannot be parsed makes
\* the load raise
stat_mtime(st) == IF st.state = "missing" THEN NoMtime ELSE st.mtime
load_raises(st) == st.state = "bad"
load_of(st) ==
    IF st.state = "missing" THEN DEFAULTS ELSE ExporterConfig_load(st.file)

\* (mutant of reload_result: True whenever a reload was due)
reload_result_ret_mut(st, changed, force) ==
    LET call == [n |-> st.call.n + 1, forced |-> force, tried |-> changed,
                 ret |-> changed]
    IN IF changed /\ ~load_raises(st)
       THEN [st EXCEPT !.live = load_of(st), !.seen = stat_mtime(st),
                       !.touched = FALSE, !.call = call]
       ELSE [st EXCEPT !.touched = FALSE, !.call = call]

\* (mutant of reload_result: the mtime is recorded before the load)
reload_result_seen_mut(st, changed, force) ==
    LET call == [n |-> st.call.n + 1, forced |-> force, tried |-> changed,
                 ret |-> changed /\ ~load_raises(st)]
    IN IF changed /\ ~load_raises(st)
       THEN [st EXCEPT !.live = load_of(st), !.seen = stat_mtime(st),
                       !.touched = FALSE, !.call = call]
       ELSE IF changed
            THEN [st EXCEPT !.seen = stat_mtime(st), !.touched = FALSE,
                            !.call = call]
            ELSE [st EXCEPT !.touched = FALSE, !.call = call]

\* reload_config_if_changed after the stat: when a reload is due and the
\* load returns, the new config and the mtime are installed and the call
\* returns True; when the load raises, or no reload is due, nothing is
\* written and it returns False. call keeps what the call did
reload_result(st, changed, force) ==
    LET call == [n |-> st.call.n + 1, forced |-> force, tried |-> changed,
                 ret |-> changed /\ ~load_raises(st)]
    IN IF changed /\ ~load_raises(st)
       THEN [st EXCEPT !.live = load_of(st), !.seen = stat_mtime(st),
                       !.touched = FALSE, !.call = call]
       ELSE [st EXCEPT !.touched = FALSE, !.call = call]

\* (mutant of main_placeholder: nothing is published for an empty list)
main_placeholder_mut(m) == m

\* the series written when the test list is empty
main_placeholder(m) ==
    LET s == PlaceholderSeries
        m1 == GSet(GSet(GSet(GSet(m, "g_test_info", s, 1), "g_send_ok", s, 0),
                        "g_recv_ok", s, 0), "g_roundtrip", s, 0)
        m2 == GSet(GSet(m1, "g_last_send", s, now), "g_last_recv", s, now)
    IN GSet(GSet(GSet(m2, "g_recv_attempted", s, 0), "g_recv_skipped", s, 0),
            "g_send_uncertain", s, 0)

\* the head of a cycle: the loop test, the reload when the file's mtime has
\* moved, tests and exporter settings taken from the config, the config
\* gauges, then the loop over the tests (or the placeholder series)
run_tests_loop_cycle ==
    /\ impl = "main"
    /\ phase = "idle"
    /\ loop_continues
    /\ cycle < MaxCycles
    /\ cycle' = cycle + 1
    /\ phase' = "running"
    /\ LET changed == config_changed(FALSE)
           cfg == IF changed THEN ExporterConfig_load(store.file) ELSE config
           m1 == [metrics EXCEPT !.g_cfg.published = cycle + 1,
                                 !.g_cfg.smtp_timeout = SmtpTimeout]
       IN /\ config' = cfg
          /\ store' = IF changed
                      THEN [store EXCEPT !.live = cfg, !.seen = store.mtime]
                      ELSE store
          /\ snap' = cfg
          /\ metrics' = IF cfg.tests = <<>> THEN main_placeholder(m1) ELSE m1
          /\ task' = [i \in 1..Len(cfg.tests) |->
                        [TaskInit EXCEPT !.pc = "created"]]
    /\ cur' = 1
    /\ UNCHANGED <<impl, env, stop_event, now, aside, sleep_left>>

\* (mutant of main_reset: receive_attempted keeps its earlier value)
main_reset_mut(m, s) ==
    GSet(GSet(GSet(GSet(m, "g_recv_ok", s, 0), "g_roundtrip", s, 0),
              "g_recv_skipped", s, 0), "g_send_uncertain", s, 0)

\* the per-cycle reset of a route's receive state
main_reset(m, s) ==
    GSet(GSet(GSet(GSet(GSet(m, "g_recv_ok", s, 0), "g_roundtrip", s, 0),
                   "g_recv_attempted", s, 0),
              "g_recv_skipped", s, 0), "g_send_uncertain", s, 0)

\* (mutant of main_route_series: only the mapping is published)
main_route_series_mut(m, s) == GSet(m, "g_test_info", s, 1)

\* the head of a route's iteration: the mapping series, the send and receive
\* error counters created by inc(0), the last-error gauge at 0
main_route_series(m, s) ==
    LET m1 == GSet(m, "g_test_info", s, 1)
        m2 == CInc(CInc(m1, "c_errors", <<s, "send">>, 0),
                   "c_errors", <<s, "receive">>, 0)
    IN GSet(m2, "g_last_error", s, 0)

\* one iteration of the loop from its head to the first attempt of
\* _smtp_send, or to the error _smtp_send raises before its loop
run_tests_loop_route(i) ==
    /\ impl = "main"
    /\ phase = "running"
    /\ cur = i
    /\ task[i].pc = "created"
    /\ LET src == Test(i).from
           dst == Test(i).to
           s == Series(i)
           m3 == main_route_series(metrics, s)
       IN IF ~Truthy(src) \/ ~Truthy(dst)
          THEN /\ metrics' = CInc(m3, "c_errors",
                    <<<<s[1], IF Truthy(src) THEN src ELSE "",
                        IF Truthy(dst) THEN dst ELSE "">>, "config">>, 1)
               /\ task' = [task EXCEPT ![i].pc = "done"]
               /\ cur' = i + 1
          ELSE /\ metrics' = GSet(main_reset(m3, s), "g_last_send", s, now)
               /\ cur' = i
               /\ LET pre == main_smtp_precheck(src, dst)
                  IN IF pre = "ok"
                     THEN task' = [task EXCEPT ![i].pc = "smtp_wait",
                                               ![i].attempts = 1,
                                               ![i].start = now,
                                               ![i].acc_seen = config.accounts]
                     ELSE task' = [task EXCEPT ![i].pc = "send_exc",
                                               ![i].exc = pre,
                                               ![i].start = now,
                                               ![i].acc_seen = config.accounts]
    /\ UNCHANGED <<outside, config, snap, sleep_left, phase, cycle>>

\* one attempt of _smtp_send ends: only a timeout or disconnect is retried
main_smtp_attempt_done(i, o, acc) ==
    /\ impl = "main"
    /\ cur = i
    /\ task[i].pc = "smtp_wait"
    /\ acc => o \in {"ok", "timeout"}
    /\ o = "ok" => acc
    /\ LET t == [task[i] EXCEPT !.replies = Append(@, o),
                                !.accepted = @ \/ acc]
       IN CASE o = "ok" ->
                 /\ metrics' = GSet(metrics, "g_send_ok", Series(i), 1)
                 /\ task' = [task EXCEPT ![i] =
                        [t EXCEPT !.pc = "recv_call", !.outcome = "ok"]]
            [] o = "timeout" /\ task[i].attempts < main_max_attempts ->
                 /\ metrics' = metrics
                 /\ task' = [task EXCEPT ![i] =
                        [t EXCEPT !.pc = "backoff", !.backoffs = @ + 1]]
            [] o = "timeout" /\ ~(task[i].attempts < main_max_attempts) ->
                 /\ metrics' = metrics
                 /\ task' = [task EXCEPT ![i] =
                        [t EXCEPT !.pc = "send_exc",
                                  !.exc = "SMTPUncertainError"]]
            [] o \in {"r4xx", "r5xx"} ->
                 /\ metrics' = metrics
                 /\ task' = [task EXCEPT ![i] =
                        [t EXCEPT !.pc = "send_exc",
                                  !.exc = "SMTPResponseException"]]
            [] o = "other" ->
                 /\ metrics' = metrics
                 /\ task' = [task EXCEPT ![i] =
                        [t EXCEPT !.pc = "send_exc", !.exc = "Exception"]]
    /\ UNCHANGED <<outside, config, snap, sleep_left, phase, cycle, cur>>

\* time.sleep(backoff) ends and the loop makes its next attempt
main_smtp_backoff_done(i) ==
    /\ impl = "main"
    /\ cur = i
    /\ task[i].pc = "backoff"
    /\ task' = [task EXCEPT ![i].pc = "smtp_wait", ![i].attempts = @ + 1]
    /\ UNCHANGED <<outside, config, snap, sleep_left, phase, cycle, cur, metrics>>

\* the two except clauses around _smtp_send: an uncertain send goes on to
\* the probe when probing is enabled, any other error skips the receive
run_tests_loop_send_failed(i) ==
    /\ impl = "main"
    /\ cur = i
    /\ task[i].pc = "send_exc"
    /\ LET s == Series(i)
           oc == send_outcome_of(task[i].exc)
           m1 == GSet(metrics, "g_send_ok", s, 0)
           m2 == IF oc = "uncertain" THEN GSet(m1, "g_send_uncertain", s, 1)
                 ELSE m1
           m3 == GSet(CInc(m2, "c_errors", <<s, "send">>, 1),
                      "g_last_error", s, 1)
       IN IF oc = "uncertain" /\ uncertain_probe_on_timeout
          THEN /\ metrics' = m3
               /\ task' = [task EXCEPT ![i].pc = "probe_call",
                                       ![i].outcome = oc]
               /\ cur' = i
          ELSE /\ metrics' = GSet(m3, "g_recv_skipped", s, 1)
               /\ task' = [task EXCEPT ![i].pc = "done", ![i].outcome = oc]
               /\ cur' = i + 1
    /\ UNCHANGED <<outside, config, snap, sleep_left, phase, cycle>>

\* what run_tests_loop does when the poller raised
main_after_poll_error(m, s, kind) ==
    IF kind = "probe" THEN GSet(m, "g_recv_skipped", s, 1)
    ELSE GSet(CInc(m, "c_errors", <<s, "receive">>, 1), "g_last_error", s, 1)

\* the roundtrip run_tests_loop reports: end - start, start the local taken
\* before the send
main_roundtrip(start, end) == end - start

\* what run_tests_loop does with the poller's result
main_after_poll(m, s, kind, ok, start) ==
    IF kind = "probe"
    THEN IF ok THEN GSet(GSet(m, "g_last_recv", s, now), "g_recv_ok", s, 1)
         ELSE GSet(GSet(m, "g_recv_ok", s, 0), "g_recv_skipped", s, 1)
    ELSE IF ok
         THEN GSet(GSet(GSet(m, "g_recv_ok", s, 1), "g_last_recv", s, now),
                   "g_roundtrip", s, main_roundtrip(start, now))
         ELSE GSet(CInc(GSet(m, "g_recv_ok", s, 0),
                        "c_errors", <<s, "receive">>, 1),
                   "g_roundtrip", s, 0)

\* the call of _imap_wait_receive: the gauges written before it, the
\* settings, the credential checks, the deadline, then connect and login
\* (d: the time that takes); an error raised here is handled by the caller
main_imap_wait_receive_call(i, login, d) ==
    /\ impl = "main"
    /\ cur = i
    /\ task[i].pc \in {"recv_call", "probe_call"}
    /\ LET s == Series(i)
           probe == task[i].pc = "probe_call"
           kind == IF probe THEN "probe" ELSE "receive"
           cfg == IF probe THEN main_probe_cfg ELSE exporter_cfg
           m1 == IF probe THEN GSet(metrics, "g_recv_attempted", s, 1)
                 ELSE GSet(GSet(metrics, "g_recv_attempted", s, 1),
                           "g_recv_skipped", s, 0)
           pre == main_imap_precheck(Test(i).to)
           t == [task[i] EXCEPT !.polls = @ + 1,
                                !.kind = kind,
                                !.poll_s = cfg.receive_poll_seconds,
                                !.timeout_s = cfg.receive_timeout_seconds,
                                !.elapsed = d,
                                !.acc_seen = config.accounts]
       IN IF pre = "ok" /\ login = "ok"
          THEN /\ metrics' = m1
               /\ task' = [task EXCEPT ![i] = [t EXCEPT !.pc = "polling"]]
               /\ cur' = i
          ELSE /\ metrics' = main_after_poll_error(m1, s, kind)
               /\ task' = [task EXCEPT ![i] =
                     [t EXCEPT !.pc = "done", !.elapsed = 0,
                               !.exc = IF pre = "ok" THEN login ELSE pre]]
               /\ cur' = i + 1
    /\ UNCHANGED <<outside, config, snap, sleep_left, phase, cycle>>

\* the poll loop: while the deadline has not passed, one pass over the
\* folders (d: the time it takes); a match returns True, no match sleeps
\* poll_s; once the deadline has passed the poller returns False
main_imap_wait_receive_pass(i, found, d) ==
    /\ impl = "main"
    /\ cur = i
    /\ task[i].pc = "polling"
    /\ found => task[i].accepted
    /\ LET s == Series(i)
           expired == ~(task[i].elapsed < task[i].timeout_s)
       IN IF expired \/ found
          THEN /\ metrics' = main_after_poll(metrics, s, task[i].kind,
                                             ~expired /\ found,
                                             task[i].start)
               /\ task' = [task EXCEPT ![i].pc = "done",
                              ![i].found = ~expired /\ found,
                              ![i].passes = @ + (IF expired THEN 0 ELSE 1),
                              ![i].elapsed = 0]
               /\ cur' = i + 1
          ELSE /\ task' = [task EXCEPT ![i].passes = @ + 1,
                              ![i].elapsed = @ + d + task[i].poll_s]
               /\ UNCHANGED <<metrics, cur>>
    /\ UNCHANGED <<outside, config, snap, sleep_left, phase, cycle>>

\* the loop over the tests is through; the thread goes to sleep
run_tests_loop_sleep ==
    /\ impl = "main"
    /\ phase = "running"
    /\ cur = Len(snap.tests) + 1
    /\ phase' = "sleep"
    /\ sleep_left' = CfgCheckInterval
    /\ cur' = 0
    /\ task' = [i \in Tasks |-> TaskInit]
    /\ UNCHANGED <<outside, config, snap, cycle, metrics>>

MainNext ==
    \/ run_tests_loop_cycle
    \/ \E i \in Tasks : run_tests_loop_route(i)
    \/ \E i \in Tasks, o \in Replies, acc \in BOOLEAN :
          main_smtp_attempt_done(i, o, acc)
    \/ \E i \in Tasks : main_smtp_backoff_done(i)
    \/ \E i \in Tasks : run_tests_loop_send_failed(i)
    \/ \E i \in Tasks, l \in LoginResults, d \in 0..MaxDelay :
          main_imap_wait_receive_call(i, l, d)
    \/ \E i \in Tasks, f \in BOOLEAN, d \in 0..MaxDelay :
          main_imap_wait_receive_pass(i, f, d)
    \/ run_tests_loop_sleep

-----------------------------------------------------------------------------
(* Specification *)

GoodAccount ==
    [smtp_username |-> "u", smtp_password |-> "pw",
     imap_username |-> "i", imap_password |-> "pw"]

\* source accounts: good, or with the SMTP username or password missing,
\* empty, or given as an environment placeholder
SrcAccounts ==
    {GoodAccount,
     [GoodAccount EXCEPT !.smtp_username = None],
     [GoodAccount EXCEPT !.smtp_username = ""],
     [GoodAccount EXCEPT !.smtp_password = None],
     [GoodAccount EXCEPT !.smtp_password = ""],
     [GoodAccount EXCEPT !.smtp_password = "${PW}"]}

\* destination accounts: good, the address taken from the SMTP username, or
\* no address at all
DstAccounts ==
    {GoodAccount,
     [GoodAccount EXCEPT !.imap_username = None],
     [GoodAccount EXCEPT !.imap_username = "", !.smtp_username = None],
     [GoodAccount EXCEPT !.imap_username = None, !.smtp_username = ""]}

Envs == {Unset, "", "secret"}

OneTest == <<[name |-> "r1", from |-> "a", to |-> "b"]>>

TwoTests ==
    <<[name |-> "r1", from |-> "a", to |-> "b"],
      [name |-> "r2", from |-> "b", to |-> "a"]>>

Config(p, a, b, ts) ==
    [exporter |-> [probe_on |-> p],
     accounts |-> [k \in AccountKeys |-> IF k = "a" THEN a ELSE b],
     tests |-> ts]

-----------------------------------------------------------------------------
(* ExporterConfig.load on values that carry their Python type *)

\* a sub-key a dict does not have
NoItem == -1

\* the top-level keys looked at ("extra" is not in DEFAULTS) and the
\* sub-keys of a dict value
LoadKeys == {"exporter", "tests", "extra"}
LoadKeyOrder == <<"exporter", "tests", "extra">>
SubKeys == {"p", "q"}

\* a value of a top-level key: a dict, anything else (a list, a string, a
\* number), or none when the key is absent
AbsentValue == [kind |-> "absent", d |-> [sk \in SubKeys |-> NoItem], x |-> NoItem]
DictValue(f) == [kind |-> "dict", d |-> f, x |-> NoItem]
OtherValue(n) == [kind |-> "other", d |-> [sk \in SubKeys |-> NoItem], x |-> n]

\* DEFAULTS: exporter is a dict, tests a list, no other key looked at here
typed_DEFAULTS ==
    [k \in LoadKeys |->
        IF k = "exporter" THEN DictValue([sk \in SubKeys |-> 0])
        ELSE IF k = "tests" THEN OtherValue(0)
        ELSE AbsentValue]

isinstance_dict(v) == v.kind = "dict"

\* {**data[k], **v}
typed_merge(dv, v) ==
    DictValue([sk \in SubKeys |-> IF v.d[sk] # NoItem THEN v.d[sk] ELSE dv.d[sk]])

\* (mutant of load_item: the file's dict replaces the default dict)
load_item_mut(data, k, v) == [data EXCEPT ![k] = v]

\* the body of the loop for the item (k, v) of the loaded file
load_item(data, k, v) ==
    IF isinstance_dict(v) /\ data[k].kind # "absent" /\ isinstance_dict(data[k])
    THEN [data EXCEPT ![k] = typed_merge(@, v)]
    ELSE [data EXCEPT ![k] = v]

RECURSIVE load_items(_, _, _)
load_items(data, loaded, ks) ==
    IF ks = <<>> THEN data
    ELSE load_items(load_item(data, Head(ks), loaded[Head(ks)]), loaded,
                    Tail(ks))

\* ExporterConfig.load: the loop over the items of the file, starting from
\* the copy of the table
typed_load(table, loaded) ==
    load_items(table, loaded,
               SelectSeq(LoadKeyOrder, LAMBDA k : loaded[k].kind # "absent"))

\* the DEFAULTS table after a load that produced data: the load works on
\* DEFAULTS.copy() and replaces the copy's entries, the table stays
DEFAULTS_after_load(table, data) == table

-----------------------------------------------------------------------------
(* A destination mailbox and the pollers that search it *)

\* the routes that deliver to the mailbox, and the values uuid4().hex[:12]
\* takes in the model
PollRoutes == {"r1", "r2"}
Tokens == {"t1", "t2"}
NoToken == "<no token>"
Nobody == "<nobody>"

\* IMAP hosts, and what the two substring tests on the lower-cased host give
Hosts == {"imap.gmail.com", "imap.googlemail.com", "mail.example.org"}
\* imap_client: "gmail.com" in host_lc or host_lc.endswith("googlemail.com")
runner_is_gmail(host) == host \in {"imap.gmail.com", "imap.googlemail.com"}
\* main: host.lower().endswith("gmail.com") or "gmail" in host.lower()
main_is_gmail(host) == host \in {"imap.gmail.com"}

\* imap_client: the provider folders appended for Gmail
runner_gmail_folders ==
    <<"[Gmail]/All Mail", "[Gmail]/Spam", "[Google Mail]/All Mail",
      "[Google Mail]/Spam">>

\* main: gmail_candidates
gmail_candidates ==
    <<"[Gmail]/All Mail", "[Google Mail]/All Mail",
      "[Gmail]/Alle Nachrichten", "[Google Mail]/Alle Nachrichten",
      "[Gmail]/Spam", "[Google Mail]/Spam",
      "[Gmail]/Important", "[Google Mail]/Wichtig">>

\* the elements of a sequence
Range(seq) == {seq[n] : n \in DOMAIN seq}

\* imap.get("extra_folders", []) or [], a single string made a list of one
normalize_extra(e) == IF e.is_str THEN <<e.s>> ELSE e.items

\* (mutant of append_new: appended whether or not it is already listed)
append_new_mut(lst, f) == Append(lst, f)

\* "if f not in folders_to_try: folders_to_try.append(f)"
append_new(lst, f) == IF f \in Range(lst) THEN lst ELSE Append(lst, f)

\* the loop over the configured extra folders: empty names are left out
RECURSIVE add_extra(_, _)
add_extra(lst, fs) ==
    IF fs = <<>> THEN lst
    ELSE add_extra(IF Head(fs) = "" THEN lst ELSE append_new(lst, Head(fs)),
                   Tail(fs))

\* the loop over gmail_candidates
RECURSIVE add_candidates(_, _)
add_candidates(lst, fs) ==
    IF fs = <<>> THEN lst
    ELSE add_candidates(append_new(lst, Head(fs)), Tail(fs))

\* main._imap_wait_receive: folders_to_try
main_folders_to_try(imap) ==
    LET l1 == add_extra(<<imap.folder>>, normalize_extra(imap.extra_folders))
    IN IF main_is_gmail(imap.host) THEN add_candidates(l1, gmail_candidates)
       ELSE l1

\* imap_client.imap_wait_receive: folders
runner_folders(imap) ==
    IF runner_is_gmail(imap.host) THEN <<imap.folder>> \o runner_gmail_folders
    ELSE <<imap.folder>>

\* (mutant of search: every message of the folder matches)
search_mut(msgs, folder, token) == {m \in msgs : m.folder = folder}

\* client.search for the token in the selected folder: the messages whose
\* subject or body holds it (a folder the server does not have holds none)
search(msgs, folder, token) ==
    {m \in msgs : m.folder = folder /\ m.token = token}

\* (mutant of first_match: a folder that fails ends the pass)
RECURSIVE first_match_mut(_, _, _, _)
first_match_mut(msgs, fs, token, bad) ==
    IF fs = <<>> THEN {}
    ELSE IF Head(fs) \in bad THEN {}
    ELSE IF search(msgs, Head(fs), token) # {}
         THEN search(msgs, Head(fs), token)
         ELSE first_match_mut(msgs, Tail(fs), token, bad)

\* the pass over the folders: a folder whose select or search fails (bad)
\* is passed over, the matches of the first folder that has any end the pass
RECURSIVE first_match(_, _, _, _)
first_match(msgs, fs, token, bad) ==
    IF fs = <<>> THEN {}
    ELSE IF Head(fs) \in bad THEN first_match(msgs, Tail(fs), token, bad)
    ELSE IF search(msgs, Head(fs), token) # {}
         THEN search(msgs, Head(fs), token)
         ELSE first_match(msgs, Tail(fs), token, bad)

\* (mutant of delete_found: the matches are deleted whatever the setting)
delete_found_mut(msgs, found_msgs, delete_after, del) ==
    msgs \ found_msgs

\* the mailbox after a match: with delete_testmail_after_verify,
\* add_flags(found_msgs, \Deleted) and expunge(), which removes every
\* flagged message of the selected folder; del tells how far that got
delete_found(msgs, found_msgs, delete_after, del) ==
    IF ~delete_after \/ del = "flag_failed" THEN msgs
    ELSE LET flagged == (msgs \ found_msgs)
                           \cup {[m EXCEPT !.flagged = TRUE] : m \in found_msgs}
         IN IF del = "expunge_failed" THEN flagged
            ELSE {m \in flagged :
                     ~(m.flagged /\ \E h \in found_msgs : h.folder = m.folder)}

PollInit ==
    [pc |-> "idle", token |-> NoToken, cyc |-> 0, list |-> <<>>, hit |-> {},
     passes |-> 0, bad |-> {}]

\* the loader and the mailbox when the model does not look at them
NoLoad == [on |-> FALSE]
NoMailbox == [on |-> FALSE]
NoRetry == [on |-> FALSE]
NoThreads == [on |-> FALSE]

\* no reload in progress
NotLoading ==
    [active |-> FALSE, data |-> DEFAULTS, loaded |-> DEFAULTS, todo |-> <<>>,
     mtime |-> 0]

\* the process after start-up: the config was loaded on import from a file
\* that gives every key; main's on_startup has recorded the file's mtime,
\* the modular app has not
InitWorker ==
    /\ impl \in {"runner", "main"}
    /\ phase = "idle"
    /\ cycle = 0
    /\ cur = 0
    /\ snap = config
    /\ store = [file |-> config, mtime |-> 0,
                seen |-> IF impl = "main" THEN 0 ELSE NoMtime,
                live |-> config, loading |-> NotLoading,
                state |-> "ok", touched |-> FALSE,
                call |-> [n |-> 0, forced |-> FALSE, tried |-> FALSE,
                          ret |-> FALSE]]
    /\ stop_event = FALSE
    /\ sleep_left = 0
    /\ now = 0
    /\ task = [i \in Tasks |-> TaskInit]
    /\ metrics = MetricsInit

\* the same with the loader and the mailbox at rest
InitRest ==
    /\ InitWorker
    /\ loader = NoLoad
    /\ mbox = NoMailbox
    /\ retry = NoRetry
    /\ threads = NoThreads

\* one route between two good accounts, or with a source account without
\* SMTP username, or a destination account without address; or no route
Init ==
    /\ env = Unset
    /\ config \in
         {Config(p, GoodAccount, GoodAccount, OneTest) : p \in BOOLEAN}
         \cup {Config(TRUE, [GoodAccount EXCEPT !.smtp_username = None],
                      GoodAccount, OneTest),
               Config(TRUE, GoodAccount,
                      [GoodAccount EXCEPT !.imap_username = None,
                                          !.smtp_username = ""], OneTest),
               Config(TRUE, GoodAccount, GoodAccount, <<>>)}
    /\ InitRest

\* one route, every combination of source account, destination account and
\* environment
InitSend ==
    /\ env \in Envs
    /\ config \in {Config(TRUE, a, b, OneTest) : a \in SrcAccounts, b \in DstAccounts}
    /\ InitRest

RunnerNext ==
    \/ run_all_tests_once
    \/ \E i \in Tasks : run_one_test_start(i)
    \/ \E i \in Tasks, o \in Replies, acc \in BOOLEAN : smtp_attempt_done(i, o, acc)
    \/ \E i \in Tasks : smtp_backoff_done(i)
    \/ \E i \in Tasks : smtp_send_ok_return(i)
    \/ \E i \in Tasks : run_one_test_send_failed(i)
    \/ \E i \in Tasks, l \in LoginResults, d \in 0..MaxDelay :
          imap_wait_receive_call(i, l, d)
    \/ \E i \in Tasks, f \in BOOLEAN, d \in 0..MaxDelay :
          imap_wait_receive_pass(i, f, d)
    \/ run_all_tests_once_join

\* the file is rewritten with content f
file_change(f) ==
    /\ store.mtime < MaxFileChanges
    /\ f # store.file
    /\ store' = [store EXCEPT !.file = f, !.mtime = @ + 1]
    /\ UNCHANGED <<impl, env, stop_event, now, aside, config, snap,
                   sleep_left, phase, cycle, cur, task, metrics>>

\* POST /reload calls reload_config_if_changed(force=True): the stat, and
\* ExporterConfig.load up to its loop (the copy of DEFAULTS, the file read)
reload_begin ==
    /\ ~store.loading.active
    /\ config_changed(TRUE)
    /\ store' = [store EXCEPT !.loading =
                    [active |-> TRUE, data |-> DEFAULTS,
                     loaded |-> store.file, todo |-> file_keys(store.file),
                     mtime |-> store.mtime]]
    /\ UNCHANGED <<impl, env, stop_event, now, aside, config, snap,
                   sleep_left, phase, cycle, cur, task, metrics>>

\* (mutant of reload_merge_step: the key is merged into the live config
\* itself)
reload_merge_step_mut(st) ==
    [st EXCEPT !.live = merge_key(@, st.loading.loaded, Head(st.loading.todo)),
               !.loading.data = merge_key(@, st.loading.loaded,
                                          Head(st.loading.todo)),
               !.loading.todo = Tail(@)]

\* one pass of ExporterConfig.load's loop: the key is merged into the local
\* dict data
reload_merge_step(st) ==
    [st EXCEPT !.loading.data = merge_key(@, st.loading.loaded,
                                          Head(st.loading.todo)),
               !.loading.todo = Tail(@)]

reload_merge ==
    /\ store.loading.active
    /\ store.loading.todo # <<>>
    /\ store' = reload_merge_step(store)
    /\ UNCHANGED <<impl, env, stop_event, now, aside, config, snap,
                   sleep_left, phase, cycle, cur, task, metrics>>

\* the load returns and the module's config name is bound to the new
\* object; in main.py that is the name the worker reads, in the modular app
\* runner, smtp_client and imap_client keep the object they imported
reload_publish ==
    /\ store.loading.active
    /\ store.loading.todo = <<>>
    /\ store' = [store EXCEPT !.live = store.loading.data,
                              !.seen = store.loading.mtime,
                              !.loading = NotLoading]
    /\ config' = IF impl = "main" THEN store.loading.data ELSE config
    /\ UNCHANGED <<impl, env, stop_event, now, aside, snap, sleep_left,
                   phase, cycle, cur, task, metrics>>

\* the file is written with content f, which can be parsed (good) or not
file_write(f, good) ==
    /\ store.mtime < MaxFileWrites
    /\ store' = [store EXCEPT !.file = f,
                              !.state = IF good THEN "ok" ELSE "bad",
                              !.mtime = @ + 1,
                              !.touched = TRUE]
    /\ UNCHANGED <<impl, env, stop_event, now, aside, config, snap,
                   sleep_left, phase, cycle, cur, task, metrics>>

\* the file is removed
file_remove ==
    /\ store.state # "missing"
    /\ store' = [store EXCEPT !.state = "missing", !.touched = TRUE]
    /\ UNCHANGED <<impl, env, stop_event, now, aside, config, snap,
                   sleep_left, phase, cycle, cur, task, metrics>>

\* one call of reload_config_if_changed, forced (POST /reload) or not (the
\* head of main's cycle); the module's config name is bound to the new
\* object, which is the name main.py's worker reads
reload_config_if_changed(force) ==
    /\ store.call.n < MaxReloads
    /\ ~store.loading.active
    /\ store' = reload_result(store, config_changed(force), force)
    /\ config' = IF impl = "main" THEN store'.live ELSE config
    /\ UNCHANGED <<impl, env, stop_event, now, aside, snap, sleep_left,
                   phase, cycle, cur, task, metrics>>

-----------------------------------------------------------------------------
(* smtp_client.smtp_send: the waits of the retry loop, in tenths of a second *)

Min(a, b) == IF a <= b THEN a ELSE b
Max(a, b) == IF a >= b THEN a ELSE b

\* random.uniform(0, 1.5): both ends and two values between
JitterTenths == {0, 5, 10, 15}

\* (mutant of backoff_4xx: the wait does not depend on the attempt)
backoff_4xx_mut(attempts, jitter) == 30 + jitter

\* min(30, 3 * (2 ** (attempts - 1))) + random.uniform(0, 1.5)
backoff_4xx(attempts, jitter) == Min(300, 30 * 2^(attempts - 1)) + jitter

\* min(5, max(2, timeout_s // 20)), in seconds
backoff_timeout(timeout_s) == Min(5, Max(2, timeout_s \div 20))

\* an attempt of the loop fails with a 4xx reply or a timeout: with an
\* attempt left the wait is computed and slept, then the loop goes on;
\* without one the error is raised
smtp_attempt_fails(kind, jitter) ==
    /\ retry.on
    /\ retry.pc = "loop"
    /\ retry.attempts < max_attempts
    /\ kind = "timeout" => jitter = 0
    /\ LET n == retry.attempts + 1
           again == IF kind = "r4xx" THEN retry_4xx(n) ELSE retry_timeout(n)
           w == IF kind = "r4xx" THEN backoff_4xx(n, jitter)
                ELSE 10 * backoff_timeout(retry.timeout_s)
       IN retry' = IF again
                   THEN [retry EXCEPT !.attempts = n, !.kind = kind,
                                      !.wait = w, !.before = retry.wait,
                                      !.kind_before = retry.kind]
                   ELSE [retry EXCEPT !.attempts = n, !.pc = "raised"]
    /\ UNCHANGED <<impl, env, store, stop_event, now, loader, mbox, threads,
                   config, snap, sleep_left, phase, cycle, cur, task, metrics>>

-----------------------------------------------------------------------------
(* runner.start_background called from several threads *)

Callers == {"c1", "c2"}
NoThread == 0

\* "if _worker_thread and _worker_thread.is_alive(): return"
start_background_check(c) ==
    /\ threads.on
    /\ threads.caller[c].pc = "idle"
    /\ threads.caller[c].calls < MaxStartCalls
    /\ threads' =
          IF threads.worker_thread # NoThread
                /\ threads.worker_thread \in threads.alive
          THEN [threads EXCEPT !.caller[c].calls = @ + 1]
          ELSE [threads EXCEPT !.caller[c].calls = @ + 1,
                               !.caller[c].pc = "create"]
    /\ UNCHANGED <<impl, env, store, stop_event, now, loader, mbox, retry,
                   config, snap, sleep_left, phase, cycle, cur, task, metrics>>

\* "_worker_thread = threading.Thread(...)": a new thread object, not yet
\* started, is bound to the global name
start_background_create(c) ==
    /\ threads.on
    /\ threads.caller[c].pc = "create"
    /\ threads' = [threads EXCEPT !.caller[c].pc = "start",
                                  !.created = @ + 1,
                                  !.worker_thread = threads.created + 1]
    /\ UNCHANGED <<impl, env, store, stop_event, now, loader, mbox, retry,
                   config, snap, sleep_left, phase, cycle, cur, task, metrics>>

\* "_worker_thread.start()": the thread the global name is bound to now is
\* started; starting a thread a second time raises RuntimeError
start_background_start(c) ==
    /\ threads.on
    /\ threads.caller[c].pc = "start"
    /\ LET t == threads.worker_thread
       IN threads' =
             IF t \in threads.started
             THEN [threads EXCEPT !.caller[c].pc = "idle"]
             ELSE [threads EXCEPT !.caller[c].pc = "idle",
                                  !.started = @ \cup {t},
                                  !.alive = @ \cup {t}]
    /\ UNCHANGED <<impl, env, store, stop_event, now, loader, mbox, retry,
                   config, snap, sleep_left, phase, cycle, cur, task, metrics>>

\* a worker leaves its loop once the stop event is set, and its thread ends
worker_thread_ends(t) ==
    /\ threads.on
    /\ t \in threads.alive
    /\ stop_event
    /\ threads' = [threads EXCEPT !.alive = @ \ {t}]
    /\ UNCHANGED <<impl, env, store, stop_event, now, loader, mbox, retry,
                   config, snap, sleep_left, phase, cycle, cur, task, metrics>>

\* ExporterConfig.load(CONFIG_PATH) on the file as it is now
load_config ==
    /\ loader.on
    /\ ~loader.fresh
    /\ loader.loads < MaxLoads
    /\ LET data == typed_load(loader.table, loader.file)
       IN loader' = [loader EXCEPT !.data = data,
                                   !.table = DEFAULTS_after_load(@, data),
                                   !.loads = @ + 1,
                                   !.fresh = TRUE]
    /\ UNCHANGED <<impl, env, store, stop_event, now, mbox, retry, threads, config, snap,
                   sleep_left, phase, cycle, cur, task, metrics>>

\* the file is rewritten with content f after it was loaded
rewrite_file(f) ==
    /\ loader.on
    /\ loader.fresh
    /\ loader.loads < MaxLoads
    /\ f # loader.file
    /\ loader' = [loader EXCEPT !.prev = loader.file, !.file = f,
                                !.fresh = FALSE]
    /\ UNCHANGED <<impl, env, store, stop_event, now, mbox, retry, threads, config, snap,
                   sleep_left, phase, cycle, cur, task, metrics>>

\* a route's test starts and its send ends: uuid4().hex[:12] gives the
\* token tk, and the server files the message into folder f of the
\* destination mailbox or (lost) it never arrives. In main the thread stays
\* with the route until its poll is over
route_send(r, tk, f, lost) ==
    /\ mbox.on
    /\ mbox.poll[r].pc \in {"idle", "found", "timeout"}
    /\ mbox.poll[r].cyc < MaxPollCycles
    /\ Len(mbox.used) < MaxDraws
    /\ impl = "main" => mbox.busy = Nobody
    /\ mbox' = [mbox EXCEPT !.poll[r] = [PollInit EXCEPT !.pc = "sent",
                                                      !.token = tk,
                                                      !.cyc = mbox.poll[r].cyc + 1],
                            !.used = Append(@, tk),
                            !.busy = IF impl = "main" THEN r ELSE @,
                            !.msgs = IF lost THEN @
                                     ELSE @ \cup {[route |-> r,
                                                   cyc |-> mbox.poll[r].cyc + 1,
                                                   token |-> tk,
                                                   folder |-> f,
                                                   flagged |-> FALSE]}]
    /\ UNCHANGED <<impl, env, store, stop_event, now, loader, retry, threads, config, snap,
                   sleep_left, phase, cycle, cur, task, metrics>>

\* the poller is called: it holds the thread and builds its folder list
poll_open(r) ==
    /\ mbox.on
    /\ mbox.poll[r].pc = "sent"
    /\ mbox.busy = IF impl = "main" THEN r ELSE Nobody
    /\ mbox' = [mbox EXCEPT !.poll[r].pc = "polling",
                            !.poll[r].list =
                                IF impl = "main"
                                THEN main_folders_to_try(mbox.imap)
                                ELSE runner_folders(mbox.imap),
                            !.busy = r]
    /\ UNCHANGED <<impl, env, store, stop_event, now, loader, retry, threads, config, snap,
                   sleep_left, phase, cycle, cur, task, metrics>>

\* one pass over the folders (bad: the folders whose select or search fails
\* in it; late: the time is up after it; del: how the delete goes). A match
\* is flagged deleted and expunged when delete_testmail_after_verify is on,
\* and the poller returns; without a match it returns when the time is up
poll_pass(r, late, bad, del) ==
    /\ mbox.on
    /\ mbox.poll[r].pc = "polling"
    /\ mbox.poll[r].passes < MaxPollPasses
    /\ mbox.poll[r].passes + 1 = MaxPollPasses => late
    /\ LET found_msgs == first_match(mbox.msgs, mbox.poll[r].list,
                                     mbox.poll[r].token, bad)
           p == [mbox.poll[r] EXCEPT !.passes = @ + 1, !.bad = bad]
       IN IF found_msgs # {}
          THEN mbox' = [mbox EXCEPT
                   !.poll[r] = [p EXCEPT !.pc = "found", !.hit = found_msgs],
                   !.msgs = delete_found(@, found_msgs, mbox.delete_after, del),
                   !.busy = Nobody]
          ELSE /\ del = "ok"
               /\ IF late
                  THEN mbox' = [mbox EXCEPT
                           !.poll[r] = [p EXCEPT !.pc = "timeout"],
                           !.busy = Nobody]
                  ELSE mbox' = [mbox EXCEPT !.poll[r] = p]
    /\ UNCHANGED <<impl, env, store, stop_event, now, loader, retry, threads, config, snap,
                   sleep_left, phase, cycle, cur, task, metrics>>

\* time passes
tick ==
    /\ now < MaxTime
    /\ now' = now + 1
    /\ UNCHANGED <<impl, env, store, stop_event, aside, config, snap,
                   sleep_left, phase, cycle, cur, task, metrics>>

Next == RunnerNext \/ MainNext \/ sleep_tick \/ sleep_done

Spec == Init /\ [][Next]_vars

\* the same with the clock running, between two good accounts
InitTime ==
    /\ env = Unset
    /\ config = Config(TRUE, GoodAccount, GoodAccount, OneTest)
    /\ InitRest

NextTime == (Next \/ tick) /\ cycle' <= 1
SpecTime == InitTime /\ [][NextTime]_vars

\* two routes between two good accounts: one full cycle and the start of the
\* next; the SMTP server accepts, times out or rejects for good
InitTwo ==
    /\ env = Unset
    /\ config = Config(TRUE, GoodAccount, GoodAccount, TwoTests)
    /\ InitRest

TwoReplies == {"ok", "timeout", "r5xx"}

NextTwo ==
    /\ Next
    /\ cycle <= 1
    /\ \A i \in DOMAIN task' : \A k \in DOMAIN task'[i].replies :
          task'[i].replies[k] \in TwoReplies
SpecTwo == InitTwo /\ [][NextTwo]_vars

\* the worker thread keeps running and every network call returns within its
\* timeout
SpecTwoFair == SpecTwo /\ WF_vars(NextTwo)

\* what the file can be rewritten to: every key changed (the route renamed,
\* the probe switched off, account b without IMAP username), or the first
\* file without its exporter key
ChangedFile ==
    [exporter |-> [probe_on |-> FALSE],
     accounts |-> [k \in AccountKeys |->
                    IF k = "b" THEN [GoodAccount EXCEPT !.imap_username = None]
                    ELSE GoodAccount],
     tests |-> <<[name |-> "r2", from |-> "a", to |-> "b"]>>]
ShortFile ==
    [accounts |-> [k \in AccountKeys |-> GoodAccount], tests |-> OneTest]
FileContents == {ChangedFile, ShortFile}

\* one route between two good accounts, the file rewritten and reloaded at
\* any time; one full cycle and the start of the next
InitReload ==
    /\ env = Unset
    /\ config = Config(TRUE, GoodAccount, GoodAccount, OneTest)
    /\ InitRest

NextReload ==
    /\ \/ Next
       \/ \E f \in FileContents : file_change(f)
       \/ reload_begin
       \/ reload_merge
       \/ reload_publish
    /\ cycle <= 1
SpecReload == InitReload /\ [][NextReload]_vars

\* the worker with the stop signal arriving at any time; one full cycle and
\* the start of the next
WorkerStep == Next \/ loop_exit
NextStop == (WorkerStep \/ stop_background) /\ cycle <= 1
SpecStop == InitReload /\ [][NextStop]_vars

\* the worker thread is scheduled, and every call it waits in returns (each
\* has its timeout)
SpecStopFair == SpecStop /\ WF_vars(WorkerStep /\ cycle <= 1)

\* two routes, the first with a from or to that names no account (an unknown
\* key, or an empty one), the second between two good accounts; one cycle
BadRouteTests ==
    {<<[name |-> "r1", from |-> f, to |-> "b"],
       [name |-> "r2", from |-> "b", to |-> "a"]>> : f \in {UnknownKey, ""}}
    \cup {<<[name |-> "r1", from |-> "a", to |-> UnknownKey],
             [name |-> "r2", from |-> "b", to |-> "a"]>>}
InitCfg ==
    /\ env = Unset
    /\ config \in {Config(TRUE, GoodAccount, GoodAccount, ts) :
                      ts \in BadRouteTests}
    /\ InitRest
NextCfg ==
    /\ Next
    /\ cycle' <= 1
    /\ \A i \in DOMAIN task' :
          \A k \in DOMAIN task'[i].replies : task'[i].replies[k] \in TwoReplies
SpecCfg == InitCfg /\ [][NextCfg]_vars

\* the retry loop of one call of smtp_send, for every smtp timeout
InitRetry ==
    /\ env = Unset
    /\ config = Config(TRUE, GoodAccount, GoodAccount, OneTest)
    /\ InitWorker
    /\ loader = NoLoad
    /\ mbox = NoMailbox
    /\ threads = NoThreads
    /\ \E ts \in 0..MaxTimeoutS :
          retry = [on |-> TRUE, timeout_s |-> ts, pc |-> "loop",
                   attempts |-> 0, kind |-> "none", wait |-> 0,
                   kind_before |-> "none", before |-> 0]
NextRetry ==
    \E kind \in {"r4xx", "timeout"}, jitter \in JitterTenths :
        smtp_attempt_fails(kind, jitter)
SpecRetry == InitRetry /\ [][NextRetry]_vars

\* two threads that call start_background, before any worker was started
InitThreads ==
    /\ env = Unset
    /\ config = Config(TRUE, GoodAccount, GoodAccount, OneTest)
    /\ InitWorker
    /\ loader = NoLoad
    /\ mbox = NoMailbox
    /\ retry = NoRetry
    /\ threads = [on |-> TRUE,
                  caller |-> [c \in Callers |-> [pc |-> "idle", calls |-> 0]],
                  worker_thread |-> NoThread, created |-> 0,
                  started |-> {}, alive |-> {}]
NextThreads ==
    \/ \E c \in Callers : start_background_check(c)
    \/ \E c \in Callers : start_background_create(c)
    \/ \E c \in Callers : start_background_start(c)
    \/ stop_background
    \/ \E t \in 1..(2 * MaxStartCalls) : worker_thread_ends(t)
SpecThreads == InitThreads /\ [][NextThreads]_vars

\* the reload called on its own while the file is written and removed
InitCall ==
    /\ env = Unset
    /\ config = Config(TRUE, GoodAccount, GoodAccount, OneTest)
    /\ InitRest
NextCall ==
    \/ \E f \in FileContents, good \in BOOLEAN : file_write(f, good)
    \/ file_remove
    \/ \E force \in BOOLEAN : reload_config_if_changed(force)
SpecCall == InitCall /\ [][NextCall]_vars

\* the files the loader is given: per key absent, a dict, or another value
TypedFiles ==
    {[k \in LoadKeys |->
        IF k = "exporter" THEN e ELSE IF k = "tests" THEN t ELSE x] :
        e \in {AbsentValue, OtherValue(1),
                DictValue([sk \in SubKeys |-> IF sk = "p" THEN 1 ELSE NoItem]),
                DictValue([sk \in SubKeys |-> 1])},
        t \in {AbsentValue, OtherValue(1),
                DictValue([sk \in SubKeys |-> IF sk = "p" THEN 1 ELSE NoItem])},
        x \in {AbsentValue, OtherValue(1),
                DictValue([sk \in SubKeys |-> IF sk = "q" THEN 1 ELSE NoItem])}}

\* the loader alone: a file is loaded, rewritten and loaded again
InitLoad ==
    /\ env = Unset
    /\ config = Config(TRUE, GoodAccount, GoodAccount, OneTest)
    /\ InitWorker
    /\ mbox = NoMailbox
    /\ retry = NoRetry
    /\ threads = NoThreads
    /\ \E f \in TypedFiles :
          loader = [on |-> TRUE, table |-> typed_DEFAULTS, file |-> f,
                    prev |-> f, data |-> typed_DEFAULTS, loads |-> 0,
                    fresh |-> FALSE]
NextLoad == load_config \/ \E f \in TypedFiles : rewrite_file(f)
SpecLoad == InitLoad /\ [][NextLoad]_vars

\* the folders the server files a message into
ServerFolders == {"INBOX", "[Gmail]/Spam"}

\* the imap settings of the destination account
ExtraFolders ==
    {[is_str |-> FALSE, s |-> "", items |-> <<>>],
     [is_str |-> TRUE, s |-> "Junk", items |-> <<>>],
     [is_str |-> TRUE, s |-> "INBOX", items |-> <<>>],
     [is_str |-> FALSE, s |-> "",
      items |-> <<"Archive", "", "INBOX", "[Gmail]/Spam", "Archive">>]}
ImapSettings ==
    {[folder |-> b, extra_folders |-> e, host |-> h] :
        b \in {"INBOX", "[Gmail]/Spam"}, e \in ExtraFolders, h \in Hosts}

MailboxInit(im, del) ==
    [on |-> TRUE, imap |-> im, delete_after |-> del, msgs |-> {},
     poll |-> [r \in PollRoutes |-> PollInit], busy |-> Nobody,
     used |-> <<>>]

InitAside ==
    /\ env = Unset
    /\ config = Config(TRUE, GoodAccount, GoodAccount, OneTest)
    /\ InitWorker
    /\ loader = NoLoad
    /\ retry = NoRetry
    /\ threads = NoThreads

\* how add_flags and expunge can go
DeleteResults == {"ok", "flag_failed", "expunge_failed"}

RouteNext(r, Folders, Bads, Dels) ==
    \/ \E tk \in Tokens, f \in Folders, lost \in BOOLEAN :
          route_send(r, tk, f, lost)
    \/ poll_open(r)
    \/ \E late \in BOOLEAN, bad \in Bads, del \in Dels :
          poll_pass(r, late, bad, del)

\* one route polling a mailbox, under every imap setting, with folders
\* that fail
InitFolders ==
    /\ InitAside
    /\ \E im \in ImapSettings : mbox = MailboxInit(im, TRUE)
NextFolders == RouteNext("r1", ServerFolders, SUBSET ServerFolders, {"ok"})
SpecFolders == InitFolders /\ [][NextFolders]_vars

\* two routes to one mailbox, which starts empty; the messages go to INBOX
\* or are lost, and deletes can fail
InitMailbox ==
    /\ InitAside
    /\ \E del \in BOOLEAN :
          mbox = MailboxInit([folder |-> "INBOX",
                              extra_folders |-> [is_str |-> TRUE, s |-> "Junk",
                                                 items |-> <<>>],
                              host |-> "imap.gmail.com"], del)
NextMailbox ==
    \E r \in PollRoutes : RouteNext(r, {"INBOX"}, {{}}, DeleteResults)
SpecMailbox == InitMailbox /\ [][NextMailbox]_vars

\* a single cycle from every account configuration
NextSend == Next /\ cycle' <= 1
SpecSend == InitSend /\ [][NextSend]_vars

-----------------------------------------------------------------------------
(* Properties *)

G(g, i) == metrics[g][Series(i)]

AllReplies(i, o) ==
    /\ task[i].replies # <<>>
    /\ \A k \in DOMAIN task[i].replies : task[i].replies[k] = o

SendEnded(i) == task[i].outcome # "none"

InSend(i) == task[i].pc \in {"smtp_wait", "backoff"}

\* C1: in smtp_client.smtp_send, while every attempt so far has ended in a
\* timeout or disconnect, the attempts go on until max_attempts are used up
\* and no further; then SMTPUncertainError is raised, and _run_one_test ends
\* the send phase as uncertain with send_success = 0 and send_uncertain = 1.
C1_TimeoutsEndUncertain ==
    impl = "runner" =>
      \A i \in Tasks :
        AllReplies(i, "timeout") =>
          /\ task[i].attempts <= max_attempts
          /\ Len(task[i].replies) < max_attempts => InSend(i)
          /\ Len(task[i].replies) = max_attempts =>
               /\ ~InSend(i)
               /\ task[i].backoffs = max_attempts - 1
               /\ task[i].pc = "send_exc" => task[i].exc = "SMTPUncertainError"
               /\ task[i].pc # "send_exc" =>
                    /\ task[i].outcome = "uncertain"
                    /\ G("g_send_ok", i) = 0
                    /\ G("g_send_uncertain", i) = 1

C1_Witness ==
    /\ impl = "runner"
    /\ \E i \in Tasks :
         /\ AllReplies(i, "timeout")
         /\ Len(task[i].replies) = max_attempts
         /\ task[i].outcome = "uncertain"
         /\ task[i].pc = "done"

\* C2: in smtp_client.smtp_send, when every attempt receives a 4xx reply,
\* exactly 3 attempts are made with exactly 2 backoff waits between them, and
\* _run_one_test ends the send phase as failed: send_success = 0 and
\* send_uncertain = 0.
C2_All4xxFailsAfterThree ==
    impl = "runner" =>
      \A i \in Tasks :
        AllReplies(i, "r4xx") =>
          /\ task[i].attempts <= 3
          /\ Len(task[i].replies) < 3 => InSend(i)
          /\ Len(task[i].replies) = 3 =>
               /\ ~InSend(i)
               /\ task[i].attempts = 3
               /\ task[i].backoffs = 2
               /\ task[i].pc = "send_exc" =>
                    task[i].exc = "SMTPResponseException"
               /\ task[i].pc # "send_exc" =>
                    /\ task[i].outcome = "failed"
                    /\ G("g_send_ok", i) = 0
                    /\ G("g_send_uncertain", i) = 0

C2_Witness ==
    /\ impl = "runner"
    /\ \E i \in Tasks :
         /\ AllReplies(i, "r4xx")
         /\ Len(task[i].replies) = 3
         /\ task[i].backoffs = 2
         /\ task[i].outcome = "failed"
         /\ task[i].pc = "done"

\* C3: in smtp_client.smtp_send, an attempt that ends with a non-4xx SMTP
\* reply or with any other non-timeout error ends the send on that attempt:
\* it is the last reply of the call, no backoff wait follows it, and the call
\* has raised.
C3_PermanentErrorNoRetry ==
    \A i \in Tasks :
      LET r == task[i].replies
      IN /\ \A k \in DOMAIN r :
              r[k] \in {"r5xx", "other"} => k = Len(r)
         /\ (r # <<>> /\ r[Len(r)] \in {"r5xx", "other"}) =>
              /\ ~InSend(i)
              /\ task[i].attempts = Len(r)
              /\ task[i].backoffs = Len(r) - 1
              /\ task[i].pc = "send_exc" \/ task[i].outcome = "failed"

C3_Witness ==
    /\ impl = "runner"
    /\ \E i \in Tasks :
         /\ Len(task[i].replies) = 2
         /\ task[i].replies[1] = "r4xx"
         /\ task[i].replies[2] = "r5xx"
         /\ task[i].outcome = "failed"

\* the preconditions of a send, as the accounts and the environment give them
Resolved(v) == IF v = "${PW}" /\ env # Unset THEN env ELSE v
Empty(v) == v = None \/ v = ""
CredentialsMissing(i) ==
    LET src == config.accounts[Test(i).from]
        dst == config.accounts[Test(i).to]
    IN \/ Empty(src.smtp_username)
       \/ Empty(Resolved(src.smtp_password))
       \/ (Empty(dst.imap_username) /\ Empty(dst.smtp_username))

\* C4: smtp_send fails before any network attempt (zero SMTP attempts, zero
\* backoff waits) whenever the source account's SMTP username is missing or
\* empty, its resolved password is missing or empty, or the destination
\* account yields no address from its IMAP or SMTP username.
C4_NoAttemptWithoutCredentials ==
    \A i \in Tasks :
      CredentialsMissing(i) =>
        /\ task[i].attempts = 0
        /\ task[i].backoffs = 0
        /\ task[i].replies = <<>>
        /\ ~InSend(i)
        /\ task[i].outcome \in {"none", "failed"}

C4_Witness ==
    \E i \in Tasks :
      /\ CredentialsMissing(i)
      /\ config.accounts[Test(i).from].smtp_password = "${PW}"
      /\ env = ""
      /\ ~Empty(config.accounts[Test(i).to].imap_username)
      /\ task[i].outcome = "failed"
      /\ task[i].attempts = 0

RouteEnded(i) == task[i].pc = "done"

\* a gauge reads 0: written 0, or never written for these labels
Zero(g, i) == G(g, i) \in {0, Absent}

\* C5: in runner._run_one_test, when the send outcome is failed, the mailbox
\* poller is never called for that route in that cycle and receive_skipped
\* is set to 1.
C5_FailedSendNeverPolls ==
    impl = "runner" =>
      \A i \in Tasks :
        task[i].outcome = "failed" =>
          /\ task[i].polls = 0
          /\ G("g_recv_skipped", i) = 1

\* C6: if a route's send is classified uncertain and the follow-up probe
\* finds the token, then at the end of the route's evaluation
\* send_uncertain = 1 and receive_success = 1 on the route's series, in
\* runner._run_one_test and in main.run_tests_loop.
C6_UncertainProbeFound ==
    \A i \in Tasks :
      (/\ RouteEnded(i)
       /\ task[i].outcome = "uncertain"
       /\ task[i].kind = "probe"
       /\ task[i].found) =>
        /\ G("g_send_uncertain", i) = 1
        /\ G("g_recv_ok", i) = 1

C6_Witness ==
    \E i \in Tasks :
      /\ impl = "runner"
      /\ RouteEnded(i)
      /\ task[i].outcome = "uncertain"
      /\ task[i].kind = "probe"
      /\ task[i].found
      /\ G("g_recv_ok", i) = 1

\* C7: in runner._run_one_test, if the send is classified uncertain and the
\* probe finds nothing before its timeout, then at the end of the route's
\* evaluation receive_success = 0 and receive_skipped = 1 on the route's
\* series, whatever the gauges held after earlier cycles.
C7_UncertainProbeNotFound ==
    impl = "runner" =>
      \A i \in Tasks :
        (/\ RouteEnded(i)
         /\ task[i].outcome = "uncertain"
         /\ task[i].kind = "probe"
         /\ ~task[i].found) =>
          /\ Zero("g_recv_ok", i)
          /\ G("g_recv_skipped", i) = 1

\* C8: in runner._run_one_test, when the send outcome is uncertain and
\* uncertain_probe_on_timeout is enabled, the mailbox poll runs with timeout
\* uncertain_probe_timeout_seconds and poll interval
\* uncertain_probe_poll_seconds, not with the receive settings.
C8_ProbeUsesProbeSettings ==
    impl = "runner" =>
      \A i \in Tasks :
        (/\ task[i].outcome = "uncertain"
         /\ uncertain_probe_on_timeout
         /\ task[i].polls > 0) =>
          /\ task[i].timeout_s = CfgProbeTimeout
          /\ task[i].poll_s = CfgProbePoll

\* C9: a route whose send fails or whose receive times out in the current
\* cycle ends that cycle with receive_success = 0 on its series, even when
\* the previous cycle ended with receive_success = 1.  (Stated for the
\* cycles in which the poller, where it ran, found nothing.)
C9_NoStaleReceiveSuccess ==
    impl = "runner" =>
      \A i \in Tasks :
        (/\ RouteEnded(i)
         /\ ~task[i].found
         /\ \/ task[i].outcome = "failed"
            \/ task[i].kind = "receive") =>
          Zero("g_recv_ok", i)

\* a step of the mailbox poll of route i: the call of the poller or a pass
PollStep(i) ==
    \/ task'[i].polls > task[i].polls
    \/ task'[i].passes > task[i].passes

\* C10: for every route in every cycle, the mailbox poll (normal receive or
\* probe) starts only after that route's send phase has ended with an
\* outcome of ok, uncertain or failed; no poll step of a route precedes or
\* overlaps that route's own SMTP attempts or backoff waits.
C10_PollAfterSend ==
    /\ [](\A i \in Tasks :
            (task[i].polls > 0 \/ task[i].pc \in {"probe_call", "recv_call", "polling"}) =>
              /\ task[i].outcome \in {"ok", "uncertain", "failed"}
              /\ ~InSend(i))
    /\ [][\A i \in DOMAIN task :
            (i \in DOMAIN task' /\ PollStep(i)) =>
              /\ task[i].outcome \in {"ok", "uncertain", "failed"}
              /\ task'[i].attempts = task[i].attempts
              /\ task'[i].backoffs = task[i].backoffs
              /\ task'[i].replies = task[i].replies]_vars

C10_Witness ==
    \E i \in Tasks :
      /\ task[i].pc = "polling"
      /\ task[i].passes > 0
      /\ task[i].attempts = 2
      /\ task[i].backoffs = 1

\* C13: when a route's send succeeds and the mailbox poll finds the token,
\* the route ends the cycle with receive_success = 1, last_send_timestamp the
\* time its send was started in this cycle, last_send_timestamp <=
\* last_receive_timestamp, and roundtrip_seconds their difference, >= 0.
C13_RoundtripOfThisCycle ==
    \A i \in Tasks :
      (/\ RouteEnded(i)
       /\ task[i].outcome = "ok"
       /\ task[i].kind = "receive"
       /\ task[i].found) =>
        /\ G("g_recv_ok", i) = 1
        /\ G("g_last_send", i) = task[i].start
        /\ G("g_last_send", i) <= G("g_last_recv", i)
        /\ G("g_roundtrip", i) = G("g_last_recv", i) - G("g_last_send", i)
        /\ G("g_roundtrip", i) >= 0

C13_Witness ==
    \E i \in Tasks :
      /\ impl = "runner"
      /\ RouteEnded(i)
      /\ task[i].outcome = "ok"
      /\ task[i].kind = "receive"
      /\ task[i].found
      /\ task[i].start > 0
      /\ G("g_roundtrip", i) > 0

\* a step of the worker's event loop in a running cycle
RunnerStep(j) ==
    \/ run_one_test_start(j)
    \/ \E o \in Replies, acc \in BOOLEAN : smtp_attempt_done(j, o, acc)
    \/ smtp_backoff_done(j)

\* C11: in a runner cycle, an exception raised inside one route's task
\* leaves every other task as it is, the cycle ends only once every task has
\* returned or raised, and from the exception on the cycle does reach Sleep.
C11_ExceptionDoesNotCancelOthers ==
    /\ [][impl = "runner" =>
            /\ \A i \in Tasks :
                 (task[i].pc # "raised" /\ task'[i].pc = "raised") =>
                   \A j \in Tasks \ {i} : task'[j] = task[j]
            /\ (phase = "running" /\ phase' = "sleep") =>
                 \A i \in Tasks : task[i].pc \in {"done", "raised"}]_vars
    /\ (impl = "runner" /\ \E i \in Tasks : task[i].pc = "raised")
         ~> (phase = "sleep")

C11_Witness ==
    /\ impl = "runner"
    /\ \E i, j \in Tasks :
         /\ i # j
         /\ task[i].pc = "raised"
         /\ task[j].pc = "done"
         /\ task[j].found

\* C12: in a runner cycle, while one route's task is inside its mailbox
\* poll, a task of another route that is waiting at one of its suspension
\* points (not yet started, in an SMTP attempt, in a backoff) can take its
\* next step.
C12_PollDoesNotBlockOthers ==
    impl = "runner" =>
      \A i, j \in Tasks :
        (/\ i # j
         /\ task[i].pc = "polling"
         /\ task[j].pc \in {"created", "smtp_wait", "backoff"}) =>
          ENABLED RunnerStep(j)

fresh_snapshot ==
    IF config_changed(FALSE) THEN ExporterConfig_load(store.file)
    ELSE store.live

\* C15: every cycle starts from the newly loaded snapshot: after a change of
\* the file or a reload, the cycle's routes, exporter settings and accounts
\* are those of the new configuration.
C15_CycleUsesReloadedSnapshot ==
    [][cycle' = cycle + 1 => snap' = fresh_snapshot]_vars

\* C16: in main.run_tests_loop everything a cycle uses (routes, exporter
\* settings, account definitions) is what was configured at the start of the
\* cycle, whatever reload happens during it.
C16_CycleConfigFixedAtStart ==
    (impl = "main" /\ phase = "running") =>
        \A i \in Tasks :
            task[i].acc_seen # <<>> => task[i].acc_seen = snap.accounts

\* every configuration a complete load can produce
Snapshots ==
    {ExporterConfig_load(f) :
        f \in FileContents \cup
              {Config(TRUE, GoodAccount, GoodAccount, OneTest)}}

\* C17: a reload never exposes a partially merged configuration: the
\* published config is always the result of one complete load, and it
\* changes only when a finished load is published.
C17_ReloadPublishesWholeConfig ==
    /\ [](store.live \in Snapshots /\ config \in Snapshots)
    /\ [][store.live' # store.live =>
            \/ /\ store.loading.active
               /\ store.loading.todo = <<>>
               /\ store.live' = ExporterConfig_load(store.loading.loaded)
            \/ /\ impl = "main"
               /\ cycle' = cycle + 1
               /\ store.live' = ExporterConfig_load(store.file)]_vars

C17_Witness ==
    /\ store.loading.active
    /\ store.loading.todo # <<>>
    /\ store.loading.data \notin Snapshots
    /\ store.loading.data # DEFAULTS
    /\ store.live \in Snapshots

\* C18: once the stop signal is set the loop starts no new cycle: a stop
\* before the first loop test means no cycle at all, a stop during a cycle
\* or the sleep means the loop leaves at its next test.
C18_NoNewCycleAfterStop ==
    /\ [][stop_event => cycle' = cycle]_vars
    /\ [][(stop_event /\ phase = "idle") => phase' \in {"idle", "stopped"}]_vars
    /\ [](phase = "stopped" => stop_event)

C18_Witness ==
    /\ stop_event
    /\ phase = "stopped"
    /\ cycle = 1
    /\ cycle < MaxCycles

\* C19: a stop signal during the sleep between two cycles ends the sleep at
\* once (no more of the interval is waited out), and after any stop the
\* worker loop eventually exits.
C19_StopInterruptsSleep ==
    /\ []((stop_event /\ phase = "sleep") => ENABLED sleep_done)
    /\ [][(stop_event /\ phase = "sleep") =>
            (sleep_left' = sleep_left /\ phase' \in {"sleep", "idle"})]_vars
    /\ stop_event ~> (phase = "stopped")

C19_Witness ==
    /\ stop_event
    /\ phase = "stopped"
    /\ sleep_left > 0

\* main._get_account finds an account under both keys of route i
route_resolves(i) ==
    /\ Truthy(Test(i).from) /\ main_get_account_known(Test(i).from)
    /\ Truthy(Test(i).to) /\ main_get_account_known(Test(i).to)

\* C20: in main.run_tests_loop a route whose from or to names no known
\* account is counted as a configuration error (test_errors_total with
\* step = config) and skipped without any SMTP or IMAP call.
C20_UnresolvedRouteIsConfigError ==
    impl = "main" =>
        \A i \in Tasks :
            (task[i].pc = "done" /\ ~route_resolves(i)) =>
                /\ metrics.c_errors[<<Series(i), "config">>] >= 1
                /\ metrics.c_errors[<<Series(i), "send">>] <= 0
                /\ task[i].attempts = 0
                /\ task[i].polls = 0

\* C21: in main.run_tests_loop, when a cycle is over every configured route
\* has test_info = 1 and its error counters for send and receive exist,
\* also when the route had no error in the cycle.
C21_RouteSeriesPublishedEveryCycle ==
    (impl = "main" /\ phase = "sleep") =>
        \A i \in Tasks :
            /\ metrics.g_test_info[Series(i)] = 1
            /\ metrics.c_errors[<<Series(i), "send">>] # Absent
            /\ metrics.c_errors[<<Series(i), "receive">>] # Absent

C21_Witness ==
    /\ impl = "main"
    /\ phase = "sleep"
    /\ \E i \in Tasks :
          /\ metrics.g_test_info[Series(i)] = 1
          /\ metrics.g_recv_ok[Series(i)] = 1
          /\ metrics.c_errors[<<Series(i), "send">>] = 0
          /\ metrics.c_errors[<<Series(i), "receive">>] = 0

\* C22: with no route configured a cycle of main.run_tests_loop publishes
\* the config gauges and the placeholder series (test_info = 1, send_success
\* = receive_success = 0) and goes on to the sleep without any error.
C22_NoRoutesPlaceholder ==
    (impl = "main" /\ snap.tests = <<>> /\ cycle >= 1) =>
        /\ metrics.g_test_info[PlaceholderSeries] = 1
        /\ metrics.g_send_ok[PlaceholderSeries] = 0
        /\ metrics.g_recv_ok[PlaceholderSeries] = 0
        /\ metrics.g_cfg.published = cycle
        /\ \A k \in DOMAIN metrics.c_errors : metrics.c_errors[k] = Absent
        /\ phase = "running" => ENABLED run_tests_loop_sleep

C22_Witness ==
    /\ impl = "main"
    /\ snap.tests = <<>>
    /\ phase = "sleep"
    /\ cycle = 2
    /\ metrics.g_test_info[PlaceholderSeries] = 1

\* the value of an error counter, 0 while its series does not exist
Cnt(m, s, step) ==
    IF m.c_errors[<<s, step>>] = Absent THEN 0 ELSE m.c_errors[<<s, step>>]

\* the step in which _run_one_test handles a send that failed or is uncertain
SendErrorStep(i) ==
    task[i].pc = "send_exc" /\ task'[i].pc \in {"probe_call", "done"}

\* the step in which the receive after a successful send times out
ReceiveTimeoutStep(i) ==
    /\ task[i].pc = "polling" /\ task[i].kind = "receive"
    /\ task'[i].pc = "done" /\ ~task'[i].found

\* C25: in runner._run_one_test a receive timeout after a successful send
\* ends the route normally and adds exactly 1 to its receive error counter;
\* a failed or uncertain send adds exactly 1 to its send error counter and
\* nothing to the receive one; no other step of the route changes either.
C25_ErrorCountersPerOutcome ==
    /\ [][impl = "runner" =>
            \A i \in Tasks :
               /\ Cnt(metrics', Series(i), "send") =
                    Cnt(metrics, Series(i), "send")
                    + (IF SendErrorStep(i) THEN 1 ELSE 0)
               /\ Cnt(metrics', Series(i), "receive") =
                    Cnt(metrics, Series(i), "receive")
                    + (IF ReceiveTimeoutStep(i) THEN 1 ELSE 0)
               /\ Cnt(metrics', Series(i), "config") =
                    Cnt(metrics, Series(i), "config")]_vars
    /\ [](impl = "runner" =>
            \A i \in Tasks :
               /\ task[i].kind = "receive" => task[i].outcome = "ok"
               /\ (task[i].pc = "done" /\ cycle = 1) =>
                    /\ Cnt(metrics, Series(i), "send") =
                         (IF task[i].outcome = "ok" THEN 0 ELSE 1)
                    /\ Cnt(metrics, Series(i), "receive") =
                         (IF task[i].outcome = "ok" /\ ~task[i].found
                          THEN 1 ELSE 0))

C25_Witness ==
    /\ impl = "runner"
    /\ cycle = 2
    /\ \E i \in Tasks :
          /\ task[i].pc = "done"
          /\ task[i].outcome = "ok"
          /\ ~task[i].found
          /\ Cnt(metrics, Series(i), "receive") = 2
          /\ Cnt(metrics, Series(i), "send") = 0

\* C28: whatever the attempts' outcomes, smtp_send makes at most 3 attempts
\* in one call: retries after a 4xx reply and after a timeout count on the
\* same counter, a backoff is only entered with an attempt left, a normal
\* return follows a successful attempt and every other exit is a raise.
C28_AtMostThreeAttempts ==
    impl = "runner" =>
        \A i \in Tasks :
            /\ task[i].attempts <= max_attempts
            /\ Len(task[i].replies) <= task[i].attempts
            /\ task[i].backoffs <= task[i].attempts
            /\ task[i].pc = "backoff" =>
                  /\ task[i].attempts < max_attempts
                  /\ task[i].backoffs = task[i].attempts
            /\ task[i].pc = "smtp_wait" =>
                  task[i].backoffs = task[i].attempts - 1
            /\ task[i].outcome = "ok" =>
                  /\ task[i].replies # <<>>
                  /\ task[i].replies[Len(task[i].replies)] = "ok"
            /\ task[i].outcome \in {"failed", "uncertain"} =>
                  task[i].exc # "none"

C28_Witness ==
    /\ impl = "runner"
    /\ \E i \in Tasks :
          /\ task[i].replies = <<"r4xx", "timeout", "r4xx">>
          /\ task[i].attempts = max_attempts
          /\ task[i].pc = "send_exc"
          /\ task[i].exc = "SMTPResponseException"

\* the step in which an error of the poller ends route i's task
PollerRaisesStep(i) == task[i].pc # "raised" /\ task'[i].pc = "raised"

\* C29: in the runner an error the mailbox poller raises during a route's
\* receive or probe is recorded for the route: an error counter of the route
\* is incremented and its last-error value is set.
C29_PollerErrorRecorded ==
    [][impl = "runner" =>
        \A i \in Tasks :
            PollerRaisesStep(i) =>
                /\ Cnt(metrics', Series(i), "send")
                     + Cnt(metrics', Series(i), "receive")
                   > Cnt(metrics, Series(i), "send")
                     + Cnt(metrics, Series(i), "receive")
                /\ metrics'.g_last_error[Series(i)] \notin {Absent, 0}]_vars

\* the label triples of the configured routes
RouteSeries == {Series(i) : i \in Tasks}

\* C30: every gauge and counter series written while a route is evaluated
\* carries that route's configured (route, from, to) labels: the writes of
\* the mailbox poller land on the series _run_one_test writes, and no series
\* with another from or to comes into being.
C30_WritesUseRouteLabels ==
    impl = "runner" =>
        /\ \A g \in GaugeNames, s \in AllSeries :
              metrics[g][s] # Absent => s \in RouteSeries
        /\ \A k \in DOMAIN metrics.c_errors :
              metrics.c_errors[k] # Absent => k[1] \in RouteSeries

\* C26: ExporterConfig.load gives, per top-level key, the file's dict merged
\* over the default dict when both are dicts (file keys win, the other
\* default keys stay), the file's value as it is otherwise (also for a key
\* DEFAULTS does not have), and the default when the file lacks the key;
\* the DEFAULTS table is never changed.
C26_LoadMergesOverDefaults ==
    (loader.on /\ loader.fresh) =>
        /\ loader.table = typed_DEFAULTS
        /\ \A k \in LoadKeys :
              LET dv == typed_DEFAULTS[k]
                  fv == loader.file[k]
                  r == loader.data[k]
              IN /\ fv.kind = "absent" => r = dv
                 /\ (fv.kind = "dict" /\ dv.kind = "dict") =>
                       /\ r.kind = "dict"
                       /\ \A sk \in SubKeys :
                             r.d[sk] = IF fv.d[sk] # NoItem THEN fv.d[sk]
                                       ELSE dv.d[sk]
                 /\ (fv.kind # "absent"
                       /\ ~(fv.kind = "dict" /\ dv.kind = "dict")) => r = fv

\* a sub-key set in the file, loaded, removed from the file, loaded again
C26_Witness ==
    /\ loader.on /\ loader.fresh
    /\ loader.loads = 2
    /\ loader.prev["exporter"].kind = "dict"
    /\ loader.prev["exporter"].d["q"] = 1
    /\ loader.file["exporter"].kind = "dict"
    /\ loader.file["exporter"].d["q"] = NoItem
    /\ loader.data["exporter"].d["q"] = 0
    /\ loader.data["exporter"].d["p"] = 1
    /\ loader.data["extra"] = OtherValue(1)

\* the folders the configuration names, in the order it names them: the
\* primary folder, the extra folders, the provider's folders for a Gmail host
configured_folders(imap) ==
    <<imap.folder>> \o normalize_extra(imap.extra_folders)
        \o (IF main_is_gmail(imap.host) THEN gmail_candidates ELSE <<>>)

\* where a folder is first named
first_named(src, f) ==
    CHOOSE n \in DOMAIN src : src[n] = f /\ \A k \in 1..(n - 1) : src[k] # f

\* a poll of route r has built its folder list
has_list(r) == mbox.on /\ mbox.poll[r].pc \in {"polling", "found", "timeout"}

\* C23: in main.py the folder list of a poll is fixed by the account's imap
\* settings alone: the primary folder is first, every configured extra
\* folder and (for a Gmail host only) every provider folder is listed, in
\* the order the configuration names them, no folder is listed twice, and
\* so every poll under the same settings walks the same list in the same
\* order.
C23_FolderListFromConfigOnly ==
    \A r \in PollRoutes :
        (impl = "main" /\ has_list(r)) =>
            LET l == mbox.poll[r].list
                src == configured_folders(mbox.imap)
            IN /\ l # <<>>
               /\ l[1] = mbox.imap.folder
               /\ Range(l) = Range(src) \ {""}
               /\ \A a, b \in DOMAIN l : a # b => l[a] # l[b]
               /\ \A a, b \in DOMAIN l :
                     a < b => first_named(src, l[a]) < first_named(src, l[b])
               /\ ~main_is_gmail(mbox.imap.host) =>
                     Range(l) \subseteq
                        {mbox.imap.folder}
                           \cup Range(normalize_extra(mbox.imap.extra_folders))

\* the second poll of a route whose account names a provider folder as the
\* primary one, lists extra folders with an empty name and repetitions, and
\* is on a Gmail host
C23_Witness ==
    /\ impl = "main"
    /\ has_list("r1")
    /\ mbox.poll["r1"].cyc = 2
    /\ mbox.imap.folder = "[Gmail]/Spam"
    /\ mbox.imap.host = "imap.gmail.com"
    /\ Len(normalize_extra(mbox.imap.extra_folders)) = 5
    /\ Len(mbox.poll["r1"].list) = 10

\* a pass of route r's poll has just run
PollPassStep(r) ==
    /\ mbox.on
    /\ mbox.poll[r].pc = "polling"
    /\ mbox'.poll[r] # mbox.poll[r]

\* C24 as stated: a pass of a route's poll reports found only when a folder
\* of its list holds a message with the token the route drew for this
\* cycle; a message with any other token (another route's, an earlier
\* cycle's) is not among the matches and is still in the mailbox after the
\* pass.
C24_PollMatchesOwnTokenOnly ==
    [][\A r \in PollRoutes :
          PollPassStep(r) =>
              LET p == mbox.poll[r]
                  q == mbox'.poll[r]
              IN /\ (q.pc = "found") = (q.hit # {})
                 /\ q.pc = "found" =>
                       \E m \in mbox.msgs :
                           m.token = p.token /\ m.folder \in Range(p.list)
                 /\ q.hit \subseteq mbox.msgs
                 /\ \A m \in mbox.msgs :
                       m.token # p.token =>
                           m \notin q.hit /\ m \in mbox'.msgs]_vars

\* both routes have sent to the one mailbox in their first cycle with
\* different tokens; r1's poll found its message and deleted it, r2's
\* message lies in a folder r1 polled and is still there
C24_Witness ==
    /\ mbox.on
    /\ mbox.delete_after
    /\ mbox.poll["r1"].pc = "found"
    /\ mbox.poll["r1"].cyc = 1
    /\ mbox.poll["r2"].pc = "sent"
    /\ mbox.poll["r2"].cyc = 1
    /\ mbox.poll["r1"].token # mbox.poll["r2"].token
    /\ mbox.poll["r1"].hit # {}
    /\ mbox.poll["r1"].hit \cap mbox.msgs = {}
    /\ \E m \in mbox.msgs :
          /\ m.route = "r2"
          /\ m.token = mbox.poll["r2"].token
          /\ m.folder = mbox.poll["r1"].list[1]

\* C27: the tokens drawn by uuid4().hex[:12] are pairwise distinct, over
\* the routes of a cycle and over the cycles.
C27_TokensPairwiseDistinct ==
    mbox.on =>
        \A a, b \in DOMAIN mbox.used : a # b => mbox.used[a] # mbox.used[b]

\* C31: in main.run_tests_loop, when the evaluation of a route (one with a
\* from and a to) has ended, receive_attempted is 1 if the mailbox poller
\* was called for the route in this cycle, for the receive or for the probe,
\* and 0 if it was not, whatever earlier cycles left behind.
C31_ReceiveAttemptedIffPolled ==
    impl = "main" =>
        \A i \in DOMAIN task :
            (phase = "running" /\ task[i].pc = "done"
                /\ Truthy(Test(i).from) /\ Truthy(Test(i).to)) =>
                G("g_recv_attempted", i) = IF task[i].polls > 0 THEN 1 ELSE 0

\* a later cycle in which the send failed and nothing was polled, after a
\* cycle whose receive found the message
C31_Witness ==
    /\ impl = "main"
    /\ phase = "running"
    /\ cycle = 2
    /\ 1 \in DOMAIN task
    /\ task[1].pc = "done"
    /\ task[1].polls = 0
    /\ task[1].outcome = "failed"
    /\ G("g_last_recv", 1) # Absent
    /\ G("g_recv_attempted", 1) = 0

\* C32: in the modular app no state a scrape of /metrics can read has
\* send_success = 1 together with send_uncertain = 1 for a route, the states
\* in the middle of a route's evaluation included.
C32_NeverOkAndUncertain ==
    impl = "runner" =>
        \A s \in AllSeries :
            ~(metrics["g_send_ok"][s] = 1 /\ metrics["g_send_uncertain"][s] = 1)

matching_positions(p, msgs, bad) ==
    {k \in DOMAIN p.list :
        /\ p.list[k] \notin bad
        /\ \E m \in msgs : m.folder = p.list[k] /\ m.token = p.token}

\* C33: a pass of the poll tries the folders in list order; a folder whose
\* select or search fails is passed over and the pass goes on; the pass
\* ends at the first folder with a match, so a found result names the first
\* folder of the list that could be selected and searched and holds a
\* message with the token, and a pass finds nothing only when there is no
\* such folder.
C33_FirstSelectableMatchingFolder ==
    [][\A r \in PollRoutes :
          PollPassStep(r) =>
              LET p == mbox.poll[r]
                  q == mbox'.poll[r]
                  ks == matching_positions(p, mbox.msgs, q.bad)
              IN /\ q.passes = p.passes + 1
                 /\ (ks = {}) = (q.pc # "found")
                 /\ ks # {} =>
                       LET k == CHOOSE n \in ks : \A o \in ks : n <= o
                       IN q.hit = {m \in mbox.msgs :
                                     m.folder = p.list[k] /\ m.token = p.token}]_vars

\* a match returned from the third folder of the list while the first
\* folder, which also holds a message with the token, could not be selected
C33_Witness ==
    /\ mbox.on
    /\ mbox.poll["r1"].pc = "found"
    /\ mbox.poll["r1"].bad = {"INBOX"}
    /\ mbox.poll["r1"].list[1] = "INBOX"
    /\ Len(mbox.poll["r1"].list) >= 3
    /\ mbox.poll["r1"].list[3] = "[Gmail]/Spam"
    /\ \A m \in mbox.poll["r1"].hit : m.folder = "[Gmail]/Spam"
    /\ \E m \in mbox.msgs :
          m.folder = "INBOX" /\ m.token = mbox.poll["r1"].token

\* the messages of ms carrying the \Deleted flag
with_flag(ms) == {[m EXCEPT !.flagged = TRUE] : m \in ms}

\* C35: a pass that finds a match returns found with the matches of that
\* folder whatever becomes of the delete; the mailbox is changed only when
\* delete_testmail_after_verify is on, and then either the matches are
\* flagged and the folder is expunged, or the delete failed part-way (the
\* matches flagged but still there, or nothing changed); with the setting
\* off, and in a pass without a match, the mailbox stays as it was.
C35_DeleteOnlyWhenConfigured ==
    [][\A r \in PollRoutes :
          PollPassStep(r) =>
              LET p == mbox.poll[r]
                  q == mbox'.poll[r]
                  ks == matching_positions(p, mbox.msgs, q.bad)
                  rest == mbox.msgs \ q.hit
              IN /\ ks # {} => q.pc = "found" /\ q.hit # {}
                                 /\ q.hit \subseteq mbox.msgs
                 /\ q.pc # "found" => mbox'.msgs = mbox.msgs
                 /\ ~mbox.delete_after => mbox'.msgs = mbox.msgs
                 /\ (q.pc = "found" /\ mbox.delete_after) =>
                       \/ mbox'.msgs = mbox.msgs
                       \/ mbox'.msgs = rest \cup with_flag(q.hit)
                       \/ /\ mbox'.msgs \subseteq rest
                          /\ \A m \in rest \ mbox'.msgs :
                                m.flagged /\ \E h \in q.hit : h.folder = m.folder]_vars

\* a found result with the delete switched on and the matched message still
\* in the mailbox, unflagged: add_flags failed
C35_Witness ==
    /\ mbox.on
    /\ mbox.delete_after
    /\ mbox.poll["r1"].pc = "found"
    /\ mbox.poll["r1"].hit # {}
    /\ mbox.poll["r1"].hit \subseteq mbox.msgs

\* C24, amended: a pass of a route's poll reports found only when a folder
\* of its list holds a message with the token the route drew for this
\* cycle; a message with any other token is never among the matches and is
\* never flagged by the pass, and it leaves the mailbox in the pass only if
\* it already carried the \Deleted flag (an earlier delete of it got as far
\* as the flag) and lies in the folder the pass expunges.
C24_OtherTokensNeverMatched ==
    [][\A r \in PollRoutes :
          PollPassStep(r) =>
              LET p == mbox.poll[r]
                  q == mbox'.poll[r]
              IN /\ (q.pc = "found") = (q.hit # {})
                 /\ q.pc = "found" =>
                       \E m \in mbox.msgs :
                           m.token = p.token /\ m.folder \in Range(p.list)
                 /\ q.hit \subseteq mbox.msgs
                 /\ \A m \in mbox.msgs :
                       m.token # p.token =>
                           /\ m \notin q.hit
                           /\ \/ m \in mbox'.msgs
                              \/ /\ m.flagged
                                 /\ \E h \in q.hit : h.folder = m.folder
                                 /\ [m EXCEPT !.flagged = FALSE] \notin mbox'.msgs]_vars

\* C36: with every network call returning within its timeout, a cycle of
\* the runner comes to its end: every route's task ends with a send outcome
\* (ok, uncertain or failed) and, when its poll returned, a receive result,
\* and the loop goes to sleep, also when the servers cannot be reached
\* during the whole cycle. (The model follows the first cycle to its end
\* and stops at the head of the second.)
C36_CycleTerminates ==
    /\ (impl = "runner" /\ phase = "running" /\ cycle = 1) ~> (phase = "sleep")
    /\ [][(impl = "runner" /\ phase = "running" /\ phase' = "sleep") =>
            \A i \in Tasks :
                /\ task[i].pc \in {"done", "raised"}
                /\ task[i].outcome \in {"ok", "uncertain", "failed"}
                /\ task[i].pc = "raised" => task[i].polls > 0
                /\ (task[i].pc = "done" /\ task[i].polls > 0) =>
                      task[i].passes >= 1]_vars

\* the loop is asleep after a cycle in which every attempt of route 1's
\* send timed out and the mailbox of route 2 could not be opened
C36_Witness ==
    /\ impl = "runner"
    /\ phase = "sleep"
    /\ cycle = 1
    /\ G("g_send_uncertain", 1) = 1
    /\ G("g_recv_ok", 1) = Absent
    /\ G("g_send_ok", 2) = 1
    /\ G("g_recv_attempted", 2) = 1
    /\ G("g_recv_ok", 2) = Absent

\* a call of reload_config_if_changed has just returned
ReloadCallStep == store'.call.n = store.call.n + 1

\* C37: reload_config_if_changed returns True exactly when it bound the
\* live config to a newly loaded snapshot (and recorded the mtime it saw);
\* a call without force does that only when the file's mtime, or whether
\* the file is there, differs from what the last successful load recorded;
\* a call without force that follows another call with no write or removal
\* of the file in between returns False and leaves the live config alone.
C37_ReloadReturnsWhetherInstalled ==
    [][ReloadCallStep =>
          LET c == store'.call
              differs == IF store.state = "missing" THEN store.seen # NoMtime
                         ELSE store.seen = NoMtime \/ store.mtime # store.seen
          IN /\ c.ret =>
                   /\ store'.live = load_of(store)
                   /\ store'.seen = stat_mtime(store)
                   /\ ~load_raises(store)
             /\ ~c.ret =>
                   /\ store'.live = store.live
                   /\ store'.seen = store.seen
                   /\ config' = config
             /\ (c.ret /\ ~c.forced) => differs
             /\ (~c.forced /\ store.call.n >= 1 /\ ~store.touched) =>
                   ~c.ret /\ store'.live = store.live]_vars

\* a call without force has returned False right after a call without force
\* that loaded a rewritten file
C37_Witness ==
    /\ store.call.n = 3
    /\ ~store.call.forced
    /\ ~store.call.ret
    /\ ~store.call.tried
    /\ store.state = "ok"
    /\ store.mtime = 1
    /\ store.seen = 1
    /\ store.live = ExporterConfig_load(ChangedFile)

\* C38: when the load raises in reload_config_if_changed, the live config
\* and the recorded mtime stay as they were and the call returns False, so
\* that a following call without force still finds a reload due.
C38_FailedLoadChangesNothing ==
    [][(ReloadCallStep /\ store'.call.tried /\ load_raises(store)) =>
          /\ ~store'.call.ret
          /\ store'.live = store.live
          /\ store'.seen = store.seen
          /\ config' = config
          /\ config_changed(FALSE)']_vars

\* two calls in a row have tried to load a file that cannot be parsed, the
\* second without force; the config loaded before is still live
C38_Witness ==
    /\ store.call.n = 3
    /\ store.state = "bad"
    /\ ~store.touched
    /\ store.call.tried
    /\ ~store.call.forced
    /\ ~store.call.ret
    /\ store.seen = 1
    /\ store.mtime = 2
    /\ store.live = ExporterConfig_load(ShortFile)

\* C39: in smtp_send the wait before retry n (n = 1, 2) after a 4xx reply
\* is at least 3 * 2^(n-1) seconds and at most min(30, 3 * 2^(n-1)) + 1.5
\* seconds, so never under 3 seconds, and the second is longer than the
\* first; the wait after a timeout or disconnect is
\* min(5, max(2, timeout_s div 20)) seconds, between 2 and 5 seconds for
\* every timeout_s >= 0. (Waits in tenths of a second.)
C39_BackoffBounds ==
    (retry.on /\ retry.pc = "loop" /\ retry.attempts >= 1) =>
        LET n == retry.attempts
            w == retry.wait
        IN /\ n \in {1, 2}
           /\ retry.kind = "r4xx" =>
                 /\ w >= 30 * 2^(n - 1)
                 /\ w <= (IF 30 * 2^(n - 1) < 300 THEN 30 * 2^(n - 1) ELSE 300) + 15
                 /\ w >= 30
                 /\ (n = 2 /\ retry.kind_before = "r4xx") => w > retry.before
           /\ retry.kind = "timeout" =>
                 LET q == retry.timeout_s \div 20
                 IN /\ w = 10 * (IF q < 2 THEN 2 ELSE IF q > 5 THEN 5 ELSE q)
                    /\ w >= 20 /\ w <= 50

\* the second retry after two 4xx replies, the first wait with the largest
\* jitter and the second with none
C39_Witness ==
    /\ retry.on
    /\ retry.pc = "loop"
    /\ retry.attempts = 2
    /\ retry.kind = "r4xx"
    /\ retry.kind_before = "r4xx"
    /\ retry.before = 45
    /\ retry.wait = 60
    /\ retry.timeout_s = 60

\* C40: at most one worker thread is alive at any time, also when two
\* callers are inside start_background at once.
C40_AtMostOneWorker ==
    threads.on => Cardinality(threads.alive) <= 1

====
